---- MODULE Spec2Model ----
(***************************************************************************)
(* The HTTP route trie of API-Gateway/components/gateway/trie.py:          *)
(* TrieNode, RouteTrie (add_route, match, _parse_pattern, _parse_path,     *)
(* _get_or_create_child, _match_recursive) and the HTTPRouter facade.      *)
(*                                                                         *)
(* A Python str is a sequence of one-character strings, so that strip and  *)
(* split are computed and not assumed.  An Optional value is a sequence of *)
(* length 0 (None) or 1.  A dict is a function on its key set.  A TrieNode *)
(* object is named by the chain of edges that leads to it from the root    *)
(* (the trie is a tree, so the chain identifies the object).               *)
(***************************************************************************)
EXTENDS Naturals, Sequences, FiniteSets, TLC

VARIABLES
    nodes,          \* RouteTrie: node id -> TrieNode fields (root is <<>>)
    routes_count,   \* HTTPRouter.routes_count
    registered,     \* history: <<HTTPMethod, pattern>> -> handler of the last
                    \* add_route call that returned normally for that pair
    latest,         \* history: <<HTTPMethod, segments>> -> the handler and the
                    \* pattern of the last add_route call that returned
                    \* normally for that method and that segment sequence
    outcome,        \* the last facade call and what it returned or raised
    answers,        \* history: <<method, path>> -> what match returned for it
                    \* and whether it was asked again, for the calls that
                    \* SpecRepeat records
    threads,        \* thread id -> the call the thread is executing: its
                    \* position (pc), arguments and local variables
    dicts,          \* the params dicts that calls in progress have created:
                    \* dict id -> dict
    spot_status,    \* Parking Lot: spot -> ParkingSpot.__status
    tickets,        \* Parking Lot: the ParkingTickets issued, in order of issue
    gates,          \* Parking Lot: Entry gate -> its position in issue_ticket,
                    \* the vehicle it serves and its self.spot
    logger_instance,  \* Basic-Logger: Logger._instance
    logger_lock,      \* Basic-Logger: the thread that holds Logger._lock
    initialized,      \* Basic-Logger: the instance's _initialized attribute
    init_runs,        \* Basic-Logger: how often the body of __init__ ran, each
                      \* run making a log queue and starting a consumer thread
    callers,          \* Basic-Logger: thread -> its position in Logger()
    appenders,        \* Basic-Logger: Logger.appenders
    log_queue,        \* Basic-Logger: Logger.log_queue
    batch,            \* Basic-Logger: the local batch of _consume_logs
    shutdown_event,   \* Basic-Logger: Logger.shutdown_event
    delivered,        \* Basic-Logger: appender -> what was appended to it
    consumer,         \* Basic-Logger: position of the consumer thread
    shutdown_call,    \* Basic-Logger: position of the shutdown() call
    logged,           \* Basic-Logger: number of _log calls made
    accepted,         \* Basic-Logger history: the messages put into the queue
                      \* before shutdown() was called
    track_dict,       \* Rate Limiter: RateLimiter.track_dict
    user_locks,       \* Rate Limiter: user -> the thread that holds the
                      \* user's lock
    now,              \* Rate Limiter: what datetime.now() returns, in seconds
    requests,         \* Rate Limiter: thread -> its position in allow_request
    decisions,        \* Rate Limiter history: the calls that returned, in the
                      \* order of their return
    time_time,        \* Basic-Logger/logger.py: what time.time() returns
    last_flush_time,  \* Basic-Logger/logger.py: last_flush_time of
                      \* _consume_logs
    self_msg,         \* Logger/main.py: Logger.msg
    self_log_level,   \* Logger/main.py: Logger.log_level
    self_lock,        \* Logger/main.py: the thread that holds Logger.lock
    log_calls,        \* Logger/main.py: thread -> its position in Logger.log
    emitted,          \* Logger/main.py history: the invocations of the
                      \* appender, each with the arguments of the call of
                      \* Logger.log that made it
    routes,           \* router.py: Router.routes
    param_routes,     \* router.py: Router.param_routes
    wildcard_routes,  \* router.py: Router.wildcard_routes
    resolved          \* router.py: what the last call of the Router returned
                      \* or raised

trie_vars == <<nodes, routes_count, registered, latest, outcome, answers,
               threads, dicts>>
lot_vars == <<spot_status, tickets, gates>>
logger_vars == <<logger_instance, logger_lock, initialized, init_runs, callers,
                 appenders, log_queue, batch, shutdown_event, delivered,
                 consumer, shutdown_call, logged, accepted>>
limiter_vars == <<track_dict, user_locks, now, requests, decisions>>
timer_vars == <<time_time, last_flush_time>>
simple_vars == <<self_msg, self_log_level, self_lock, log_calls, emitted>>
router_vars == <<routes, param_routes, wildcard_routes, resolved>>
vars == <<trie_vars, lot_vars, logger_vars, limiter_vars, timer_vars,
          simple_vars, router_vars>>

\* a call of the router touches nothing outside the router, a call of the
\* parking lot nothing outside the parking lot, and the logger nothing
\* outside the logger
OutsideTrie ==
    UNCHANGED <<lot_vars, logger_vars, limiter_vars, timer_vars, simple_vars,
               router_vars>>
OutsideLot ==
    UNCHANGED <<trie_vars, logger_vars, limiter_vars, timer_vars, simple_vars,
               router_vars>>
OutsideLogger ==
    UNCHANGED <<trie_vars, lot_vars, limiter_vars, timer_vars, simple_vars,
               router_vars>>
OutsideLimiter ==
    UNCHANGED <<trie_vars, lot_vars, logger_vars, timer_vars, simple_vars,
               router_vars>>
OutsideTimedLogger ==
    UNCHANGED <<trie_vars, lot_vars, limiter_vars, simple_vars, router_vars>>
OutsideSimpleLogger ==
    UNCHANGED <<trie_vars, lot_vars, logger_vars, limiter_vars, timer_vars,
               router_vars>>
OutsideRouter ==
    UNCHANGED <<trie_vars, lot_vars, logger_vars, limiter_vars, timer_vars,
               simple_vars>>

(***************************************************************************)
(* Bounds of the model.                                                    *)
(***************************************************************************)
MaxRoutes == 2              \* routes registered under Spec

(***************************************************************************)
(* Python values.                                                          *)
(***************************************************************************)
None == <<>>
Some(x) == <<x>>
Get(o) == o[1]

EmptyDict == [k \in {} |-> <<>>]
DictSet(d, key, v) == [k \in (DOMAIN d) \cup {key} |-> IF k = key THEN v ELSE d[k]]

SLASH == "/"

\* class HTTPMethod(Enum)
HTTPMethod == {"GET", "POST", "PUT", "DELETE", "PATCH", "HEAD", "OPTIONS"}

\* str.upper() on the method strings the model passes in
Upper(method) ==
    CASE method = "get" -> "GET"
      [] method = "post" -> "POST"
      [] method = "trace" -> "TRACE"
      [] OTHER -> method

(***************************************************************************)
(* str.strip('/'), str.split('/'), '/'.join(...)                           *)
(***************************************************************************)
RECURSIVE LStrip(_)
LStrip(s) ==
    IF s # <<>> /\ Head(s) = SLASH THEN LStrip(Tail(s)) ELSE s

RECURSIVE RStrip(_)
RStrip(s) ==
    IF s # <<>> /\ s[Len(s)] = SLASH THEN RStrip(SubSeq(s, 1, Len(s) - 1)) ELSE s

Strip(s) == RStrip(LStrip(s))

\* s.split('/'): cur is the segment being read, acc the segments closed so far
RECURSIVE SplitFrom(_, _, _)
SplitFrom(s, cur, acc) ==
    IF s = <<>> THEN Append(acc, cur)
    ELSE IF Head(s) = SLASH THEN SplitFrom(Tail(s), <<>>, Append(acc, cur))
    ELSE SplitFrom(Tail(s), Append(cur, Head(s)), acc)

Split(s) == SplitFrom(s, <<>>, <<>>)

RECURSIVE Join(_)
Join(segs) ==
    IF segs = <<>> THEN <<>>
    ELSE IF Len(segs) = 1 THEN segs[1]
    ELSE segs[1] \o <<SLASH>> \o Join(Tail(segs))

\* RouteTrie._parse_pattern
_parse_pattern(pattern) ==
    LET clean_pattern == Strip(pattern)
    IN  IF clean_pattern = <<>> THEN <<>> ELSE Split(clean_pattern)

\* _parse_path with only the leading separators stripped (lstrip for strip)
_parse_path_lstrip(path) ==
    LET clean_path == LStrip(path)
    IN  IF clean_path = <<>> THEN <<>> ELSE Split(clean_path)

\* RouteTrie._parse_path
_parse_path(path) ==
    LET clean_path == Strip(path)
    IN  IF clean_path = <<>> THEN <<>> ELSE Split(clean_path)

(***************************************************************************)
(* TrieNode                                                                *)
(***************************************************************************)
Root == <<>>

\* TrieNode.__init__
TrieNode ==
    [ static_children |-> EmptyDict,
      param_child     |-> None,
      param_name      |-> None,
      wildcard_child  |-> None,
      wildcard_name   |-> None,
      handlers        |-> EmptyDict,
      route_pattern   |-> <<>>,
      is_endpoint     |-> FALSE ]

StaticEdge(segment) == <<"static", segment>>
ParamEdge == <<"param">>
WildcardEdge == <<"wildcard">>

StartsWith(s, c) == s # <<>> /\ Head(s) = c
EndsWith(s, c) == s # <<>> /\ s[Len(s)] = c

\* segment[1:-1] and param_name[1:]
Inner(s) == SubSeq(s, 2, Len(s) - 1)
Rest(s) == SubSeq(s, 2, Len(s))

\* _get_or_create_child that assigns the name on every call, also when the
\* child exists already
_get_or_create_child_rename(N, node, segment) ==
    IF StartsWith(segment, "{") /\ EndsWith(segment, "}")
    THEN IF StartsWith(Inner(segment), "*")
         THEN LET child == IF N[node].wildcard_child = None
                           THEN Append(node, WildcardEdge)
                           ELSE Get(N[node].wildcard_child)
              IN  [ nodes |-> [k \in (DOMAIN N) \cup {child} |->
                                 IF k = node
                                 THEN [N[node] EXCEPT
                                         !.wildcard_child = Some(child),
                                         !.wildcard_name = Some(Rest(Inner(segment)))]
                                 ELSE IF k \in DOMAIN N THEN N[k] ELSE TrieNode],
                    child |-> child ]
         ELSE LET child == IF N[node].param_child = None
                           THEN Append(node, ParamEdge)
                           ELSE Get(N[node].param_child)
              IN  [ nodes |-> [k \in (DOMAIN N) \cup {child} |->
                                 IF k = node
                                 THEN [N[node] EXCEPT
                                         !.param_child = Some(child),
                                         !.param_name = Some(Inner(segment))]
                                 ELSE IF k \in DOMAIN N THEN N[k] ELSE TrieNode],
                    child |-> child ]
    ELSE LET child == Append(node, StaticEdge(segment))
         IN  IF segment \notin DOMAIN N[node].static_children
             THEN [ nodes |-> [k \in (DOMAIN N) \cup {child} |->
                                 IF k = child THEN TrieNode
                                 ELSE IF k = node
                                      THEN [N[node] EXCEPT
                                              !.static_children =
                                                  DictSet(@, segment, child)]
                                      ELSE N[k]],
                    child |-> child ]
             ELSE [ nodes |-> N, child |-> N[node].static_children[segment] ]

\* _get_or_create_child on a node with one slot for its dynamic child: a new
\* wildcard child takes the place of the parameter child and the reverse
_get_or_create_child_one_dynamic(N, node, segment) ==
    IF StartsWith(segment, "{") /\ EndsWith(segment, "}")
    THEN LET param_name == Inner(segment)
         IN  IF StartsWith(param_name, "*")
             THEN LET wildcard_name == Rest(param_name)
                      child == Append(node, WildcardEdge)
                  IN  IF N[node].wildcard_child = None
                      THEN [ nodes |-> [k \in (DOMAIN N) \cup {child} |->
                                          IF k = child THEN TrieNode
                                          ELSE IF k = node
                                               THEN [N[node] EXCEPT
                                                       !.wildcard_child = Some(child),
                                                       !.param_child = None,
                                                       !.wildcard_name = Some(wildcard_name)]
                                               ELSE N[k]],
                             child |-> child ]
                      ELSE [ nodes |-> N, child |-> Get(N[node].wildcard_child) ]
             ELSE LET child == Append(node, ParamEdge)
                  IN  IF N[node].param_child = None
                      THEN [ nodes |-> [k \in (DOMAIN N) \cup {child} |->
                                          IF k = child THEN TrieNode
                                          ELSE IF k = node
                                               THEN [N[node] EXCEPT
                                                       !.param_child = Some(child),
                                                       !.wildcard_child = None,
                                                       !.param_name = Some(param_name)]
                                               ELSE N[k]],
                             child |-> child ]
                      ELSE [ nodes |-> N, child |-> Get(N[node].param_child) ]
    ELSE LET child == Append(node, StaticEdge(segment))
         IN  IF segment \notin DOMAIN N[node].static_children
             THEN [ nodes |-> [k \in (DOMAIN N) \cup {child} |->
                                 IF k = child THEN TrieNode
                                 ELSE IF k = node
                                      THEN [N[node] EXCEPT
                                              !.static_children =
                                                  DictSet(@, segment, child)]
                                      ELSE N[k]],
                    child |-> child ]
             ELSE [ nodes |-> N, child |-> N[node].static_children[segment] ]

(***************************************************************************)
(* RouteTrie._get_or_create_child: the trie after the call and the child   *)
(* it returns.                                                             *)
(***************************************************************************)
_get_or_create_child(N, node, segment) ==
    IF StartsWith(segment, "{") /\ EndsWith(segment, "}")
    THEN LET param_name == Inner(segment)
         IN  IF StartsWith(param_name, "*")
             THEN LET wildcard_name == Rest(param_name)
                      child == Append(node, WildcardEdge)
                  IN  IF N[node].wildcard_child = None
                      THEN [ nodes |-> [k \in (DOMAIN N) \cup {child} |->
                                          IF k = child THEN TrieNode
                                          ELSE IF k = node
                                               THEN [N[node] EXCEPT
                                                       !.wildcard_child = Some(child),
                                                       !.wildcard_name = Some(wildcard_name)]
                                               ELSE N[k]],
                             child |-> child ]
                      ELSE [ nodes |-> N, child |-> Get(N[node].wildcard_child) ]
             ELSE LET child == Append(node, ParamEdge)
                  IN  IF N[node].param_child = None
                      THEN [ nodes |-> [k \in (DOMAIN N) \cup {child} |->
                                          IF k = child THEN TrieNode
                                          ELSE IF k = node
                                               THEN [N[node] EXCEPT
                                                       !.param_child = Some(child),
                                                       !.param_name = Some(param_name)]
                                               ELSE N[k]],
                             child |-> child ]
                      ELSE [ nodes |-> N, child |-> Get(N[node].param_child) ]
    ELSE LET child == Append(node, StaticEdge(segment))
         IN  IF segment \notin DOMAIN N[node].static_children
             THEN [ nodes |-> [k \in (DOMAIN N) \cup {child} |->
                                 IF k = child THEN TrieNode
                                 ELSE IF k = node
                                      THEN [N[node] EXCEPT
                                              !.static_children =
                                                  DictSet(@, segment, child)]
                                      ELSE N[k]],
                    child |-> child ]
             ELSE [ nodes |-> N, child |-> N[node].static_children[segment] ]

\* the loop of RouteTrie.add_route: for segment in segments: current = ...
RECURSIVE Walk(_, _, _)
Walk(N, current, segments) ==
    IF segments = <<>> THEN [ nodes |-> N, child |-> current ]
    ELSE LET step == _get_or_create_child(N, current, Head(segments))
         IN  Walk(step.nodes, step.child, Tail(segments))

\* add_route that keeps a handler already present (setdefault for assignment)
trie_add_route_keep_first(N, method, pattern, handler) ==
    LET segments == _parse_pattern(pattern)
        walked == Walk(N, Root, segments)
        current == walked.child
    IN  [walked.nodes EXCEPT
           ![current] = [@ EXCEPT !.handlers =
                                      IF method \in DOMAIN @ THEN @
                                      ELSE DictSet(@, method, handler),
                                  !.route_pattern = pattern,
                                  !.is_endpoint = TRUE]]

\* add_route that sets is_endpoint on every node it walks through
trie_add_route_mark_path(N, method, pattern, handler) ==
    LET segments == _parse_pattern(pattern)
        walked == Walk(N, Root, segments)
        current == walked.child
    IN  [k \in DOMAIN walked.nodes |->
            IF k = current
            THEN [walked.nodes[k] EXCEPT
                    !.handlers = DictSet(@, method, handler),
                    !.route_pattern = pattern,
                    !.is_endpoint = TRUE]
            ELSE IF Len(k) < Len(current) /\ k = SubSeq(current, 1, Len(k))
                 THEN [walked.nodes[k] EXCEPT !.is_endpoint = TRUE]
                 ELSE walked.nodes[k]]

\* RouteTrie.add_route: the trie after the call
trie_add_route(N, method, pattern, handler) ==
    LET segments == _parse_pattern(pattern)
        walked == Walk(N, Root, segments)
        current == walked.child
    IN  [walked.nodes EXCEPT
           ![current] = [@ EXCEPT !.handlers = DictSet(@, method, handler),
                                  !.route_pattern = pattern,
                                  !.is_endpoint = TRUE]]

(***************************************************************************)
(* RouteTrie._match_recursive.  The code mutates the caller's params dict  *)
(* in place and returns a node or None; here the pair of both is returned: *)
(* node is the return value, params the dict as the call leaves it.        *)
(***************************************************************************)
Found(node, params) == [ node |-> node, params |-> params ]

\* the key params[node.param_name] writes: the name, or None while the node
\* has a child of that kind and its name is not assigned yet
NoneKey == <<"None">>
Key(name) == IF name = None THEN NoneKey ELSE Get(name)

\* the base case reached one segment early (index >= len(segments) - 1)
AllConsumed_off_by_one(segments, index) == index + 1 >= Len(segments)

\* if index >= len(segments)
AllConsumed(segments, index) == index >= Len(segments)

\* base case: return node if node.is_endpoint else None
BaseCase(N, node, params) ==
    Found(IF N[node].is_endpoint THEN Some(node) ELSE None, params)

RECURSIVE _match_recursive(_, _, _, _, _)

\* Try 1: static match
TryStatic(N, node, segments, index, params) ==
    LET current_segment == segments[index + 1]
    IN  IF current_segment \in DOMAIN N[node].static_children
        THEN _match_recursive(N, N[node].static_children[current_segment],
                              segments, index + 1, params)
        ELSE Found(None, params)

\* Try 2 without the restore of params after a failed subtree
TryParam_no_rollback(N, node, segments, index, params) ==
    IF N[node].param_child # None
    THEN _match_recursive(N, Get(N[node].param_child), segments, index + 1,
                          DictSet(params, Key(N[node].param_name),
                                  segments[index + 1]))
    ELSE Found(None, params)

\* Try 2: parameter match, params restored when the subtree fails
TryParam(N, node, segments, index, params) ==
    LET current_segment == segments[index + 1]
    IN  IF N[node].param_child # None
        THEN LET old_params == params
                 result == _match_recursive(
                              N, Get(N[node].param_child), segments, index + 1,
                              DictSet(params, Key(N[node].param_name),
                                      current_segment))
             IN  IF result.node # None THEN result
                 ELSE Found(None, old_params)
        ELSE Found(None, params)

\* Try 3: wildcard match, the binding is written before the endpoint test
TryWildcard(N, node, segments, index, params) ==
    IF N[node].wildcard_child # None
    THEN LET remaining_path == Join(SubSeq(segments, index + 1, Len(segments)))
             bound == DictSet(params, Key(N[node].wildcard_name), remaining_path)
         IN  IF N[Get(N[node].wildcard_child)].is_endpoint
             THEN Found(N[node].wildcard_child, bound)
             ELSE Found(None, bound)
    ELSE Found(None, params)

\* the search with Try 3 (wildcard) placed before Try 2 (parameter)
_match_recursive_wildcard_first(N, node, segments, index, params) ==
    IF AllConsumed(segments, index)
    THEN BaseCase(N, node, params)
    ELSE LET try1 == TryStatic(N, node, segments, index, params)
         IN  IF try1.node # None THEN try1
             ELSE LET try3 == TryWildcard(N, node, segments, index, try1.params)
                  IN  IF try3.node # None THEN try3
                      ELSE TryParam(N, node, segments, index, try3.params)

_match_recursive(N, node, segments, index, params) ==
    IF AllConsumed(segments, index)
    THEN BaseCase(N, node, params)
    ELSE LET try1 == TryStatic(N, node, segments, index, params)
         IN  IF try1.node # None THEN try1
             ELSE LET try2 == TryParam(N, node, segments, index, try1.params)
                  IN  IF try2.node # None THEN try2
                      ELSE TryWildcard(N, node, segments, index, try2.params)

\* dataclass RouteMatch
RouteMatch(handler, path_params, route_pattern) ==
    [ handler |-> handler, path_params |-> path_params,
      route_pattern |-> route_pattern ]

\* match that answers with whatever handler the node has when it has none
\* for the requested method
trie_match_any_method(N, method, path) ==
    LET segments == _parse_path(path)
        found == _match_recursive(N, Root, segments, 0, EmptyDict)
        handler == found.node
    IN  IF handler # None /\ DOMAIN N[Get(handler)].handlers # {}
        THEN LET hs == N[Get(handler)].handlers
                 m == IF method \in DOMAIN hs THEN method
                      ELSE CHOOSE other \in DOMAIN hs : TRUE
             IN  Some(RouteMatch(hs[m], found.params,
                                 N[Get(handler)].route_pattern))
        ELSE None

\* match whose params dict is the one the previous call left behind (a dict
\* shared between calls, as a mutable default argument is)
trie_match_shared_params(N, method, path) ==
    LET segments == _parse_path(path)
        shared == IF outcome.op = "match" /\ outcome.result # None
                  THEN Get(outcome.result).path_params
                  ELSE EmptyDict
        found == _match_recursive(N, Root, segments, 0, shared)
        handler == found.node
    IN  IF handler # None /\ method \in DOMAIN N[Get(handler)].handlers
        THEN Some(RouteMatch(N[Get(handler)].handlers[method],
                             found.params,
                             N[Get(handler)].route_pattern))
        ELSE None

\* RouteTrie.match: Some(RouteMatch) or None
trie_match(N, method, path) ==
    LET segments == _parse_path(path)
        found == _match_recursive(N, Root, segments, 0, EmptyDict)
        handler == found.node
    IN  IF handler # None /\ method \in DOMAIN N[Get(handler)].handlers
        THEN Some(RouteMatch(N[Get(handler)].handlers[method],
                             found.params,
                             N[Get(handler)].route_pattern))
        ELSE None

\* HTTPRouter.match: an invalid method string is answered with None as well
router_match(N, method, path) ==
    IF Upper(method) \in HTTPMethod
    THEN trie_match(N, Upper(method), path)
    ELSE None

(***************************************************************************)
(* The strings the operations are called with, character by character.    *)
(***************************************************************************)
S_empty == <<>>    \* ''
S_slash == <<"/">>    \* '/'
S_a == <<"/", "a">>    \* '/a'
S_a_b == <<"/", "a", "/", "b">>    \* '/a/b'
S_a_b_alt == <<"a", "/", "b", "/">>    \* 'a/b/'
S_a_b_c == <<"/", "a", "/", "b", "/", "c">>    \* '/a/b/c'
S_a_b_c_d == <<"/", "a", "/", "b", "/", "c", "/", "d">>    \* '/a/b/c/d'
S_a_x == <<"/", "a", "/", "x">>    \* '/a/x'
S_a_x_y == <<"/", "a", "/", "x", "/", "y">>    \* '/a/x/y'
S_a_id == <<"/", "a", "/", "{", "i", "d", "}">>    \* '/a/{id}'
S_a_rest == <<"/", "a", "/", "{", "*", "r", "e", "s", "t", "}">>    \* '/a/{*rest}'
S_a_rest_b == <<"/", "a", "/", "{", "*", "r", "e", "s", "t", "}", "/", "b">>    \* '/a/{*rest}/b'
S_a_id_fixed == <<"/", "a", "/", "{", "i", "d", "}", "/", "f", "i", "x", "e", "d">>    \* '/a/{id}/fixed'
S_a_123_other == <<"/", "a", "/", "1", "2", "3", "/", "o", "t", "h", "e", "r">>    \* '/a/123/other'
S_a_123_fixed == <<"/", "a", "/", "1", "2", "3", "/", "f", "i", "x", "e", "d">>    \* '/a/123/fixed'
S_x == <<"/", "x">>    \* '/x'
S_a_b_rest == <<"/", "a", "/", "b", "/", "{", "*", "r", "e", "s", "t", "}">>    \* '/a/b/{*rest}'
S_files_path == <<"/", "f", "i", "l", "e", "s", "/", "{", "*", "p", "a", "t", "h", "}">>    \* '/files/{*path}'
S_files == <<"/", "f", "i", "l", "e", "s">>    \* '/files'
S_files_a_b == <<"/", "f", "i", "l", "e", "s", "/", "a", "/", "b">>    \* '/files/a/b'
S_id == <<"i", "d">>    \* 'id'
S_rest == <<"r", "e", "s", "t">>    \* 'rest'
S_path == <<"p", "a", "t", "h">>    \* 'path'

(***************************************************************************)
(* The facade's operations as actions.                                     *)
(***************************************************************************)
Call(op, method, arg, result) ==
    [ op |-> op, method |-> method, arg |-> arg, result |-> result ]

(***************************************************************************)
(* Parking Lot (src/Parking Lot/main.py): the lot of the main block, one   *)
(* SMALL and one COMPACT spot on floor 0 and one COMPACT spot on floor 1,  *)
(* two Entry gates, and the vehicles that arrive.                          *)
(***************************************************************************)
Spots == {"p1", "p2", "p3"}
spot_type == [p1 |-> "SMALL", p2 |-> "COMPACT", p3 |-> "COMPACT"]
Levels == <<{"p1", "p2"}, {"p3"}>>
Gates == {"E1", "E2"}
GateIdle == [ pc |-> "idle" ]
Vehicles ==
    [ car1 |-> [type |-> "CAR", is_challenged_driver |-> FALSE],
      car2 |-> [type |-> "CAR", is_challenged_driver |-> FALSE],
      bike1 |-> [type |-> "BIKE", is_challenged_driver |-> FALSE] ]

(***************************************************************************)
(* Basic-Logger (src/Basic-Logger/basic-logger-implementation.py): the     *)
(* threads that construct Logger(), the appenders of the main block and    *)
(* the levels of LogLevel.                                                 *)
(***************************************************************************)
Callers == {"c1", "c2", "c3"}
Appenders == {"console", "file"}
LogLevel == [TRACE |-> 0, DEBUG |-> 1, INFO |-> 2, WARN |-> 3, ERROR |-> 4,
             FATAL |-> 5]
min_level == "INFO"

(***************************************************************************)
(* Rate Limiter (src/Rate Limiter/rate_limter_v2.py): the users, the       *)
(* threads that call allow_request, and the constructor's arguments,       *)
(* scaled down from 5 requests in 10 seconds.                              *)
(***************************************************************************)
Users == {"user123", "user456"}
Requesters == {"T0", "T1"}
max_requests == 2
window_time == 1
RequestIdle == [pc |-> "idle", user |-> "", count |-> 0, at |-> 0]

(***************************************************************************)
(* Logger (src/Logger/main.py): the threads that call Logger.log on one    *)
(* logger, the levels of LogLevels and the strings passed as log_level.    *)
(***************************************************************************)
LogThreads == {"L1", "L2"}
LogIdle == [pc |-> "idle", msg |-> "", log_level |-> ""]
LogLevels == [DEBUG |-> 1, INFO |-> 2, WARNING |-> 3, FATAL |-> 4, TRACE |-> 5]
LevelStrings == {"info", "DEBUG", "verbose"}
Messages == {"m1", "m2"}

\* str.lower() and str.upper() on the level strings the model passes in
level_lower(log_level) ==
    CASE log_level = "DEBUG" -> "debug"
      [] OTHER -> log_level

level_upper(log_level) ==
    CASE log_level = "info" -> "INFO"
      [] log_level = "verbose" -> "VERBOSE"
      [] OTHER -> log_level

\* the threads that call the router, and a thread that is in no call
Threads == {"t1", "t2"}
Idle == [ pc |-> "idle", op |-> "none" ]

\* HTTPRouter.__init__, RouteTrie.__init__
Init ==
    /\ nodes = [k \in {Root} |-> TrieNode]
    /\ routes_count = 0
    /\ registered = EmptyDict
    /\ latest = EmptyDict
    /\ outcome = Call("init", "", <<>>, None)
    /\ answers = EmptyDict
    /\ threads = [t \in Threads |-> Idle]
    /\ dicts = EmptyDict
    /\ spot_status = [spot \in Spots |-> "FREE"]
    /\ tickets = <<>>
    /\ gates = [gate \in Gates |-> GateIdle]
    /\ logger_instance = None
    /\ logger_lock = None
    /\ initialized = None
    /\ init_runs = 0
    /\ callers = [c \in Callers |-> [pc |-> "idle", self |-> None]]
    /\ appenders = <<>>
    /\ log_queue = <<>>
    /\ batch = <<>>
    /\ shutdown_event = FALSE
    /\ delivered = [a \in Appenders |-> <<>>]
    /\ consumer = "not started"
    /\ shutdown_call = "idle"
    /\ logged = 0
    /\ accepted = <<>>
    /\ track_dict = [user \in Users |-> None]
    /\ user_locks = [user \in Users |-> None]
    /\ now = 0
    /\ requests = [t \in Requesters |-> RequestIdle]
    /\ decisions = <<>>
    /\ time_time = 0
    /\ last_flush_time = 0
    /\ self_msg = None
    /\ self_log_level = None
    /\ self_lock = None
    /\ log_calls = [t \in LogThreads |-> LogIdle]
    /\ emitted = <<>>
    /\ routes = [method \in {"GET", "POST"} |-> EmptyDict]
    /\ param_routes = [method \in {"GET", "POST"} |-> <<>>]
    /\ wildcard_routes = [method \in {"GET", "POST"} |-> <<>>]
    /\ resolved = [kind |-> "init"]

\* add_route that walks the trie first and tests the method afterwards
add_route_validate_late(method, pattern, handler) ==
    /\ OutsideTrie
    /\ UNCHANGED <<answers, threads, dicts>>
    /\ nodes' = Walk(nodes, Root, _parse_pattern(pattern)).nodes
    /\ IF Upper(method) \in HTTPMethod
       THEN /\ routes_count' = routes_count + 1
            /\ registered' = DictSet(registered, <<Upper(method), pattern>>, handler)
            /\ latest' = DictSet(latest, <<Upper(method), _parse_pattern(pattern)>>,
                                 [handler |-> handler, pattern |-> pattern])
            /\ outcome' = Call("add_route", method, pattern, None)
       ELSE /\ outcome' = Call("add_route", method, pattern, Some("ValueError"))
            /\ UNCHANGED <<routes_count, registered, latest>>

\* HTTPRouter.add_route; a ValueError leaves the router as it was
add_route(method, pattern, handler) ==
    /\ OutsideTrie
    /\ UNCHANGED <<answers, threads, dicts>>
    /\ IF Upper(method) \in HTTPMethod
       THEN /\ nodes' = trie_add_route(nodes, Upper(method), pattern, handler)
            /\ routes_count' = routes_count + 1
            /\ registered' = DictSet(registered, <<Upper(method), pattern>>, handler)
            /\ latest' = DictSet(latest, <<Upper(method), _parse_pattern(pattern)>>,
                                 [handler |-> handler, pattern |-> pattern])
            /\ outcome' = Call("add_route", method, pattern, None)
       ELSE /\ outcome' = Call("add_route", method, pattern, Some("ValueError"))
            /\ UNCHANGED <<nodes, routes_count, registered, latest>>

\* match that looks the path up with _get_or_create_child, as add_route does
match_get_or_create(method, path) ==
    /\ OutsideTrie
    /\ outcome' = Call("match", method, path, router_match(nodes, method, path))
    /\ nodes' = Walk(nodes, Root, _parse_path(path)).nodes
    /\ UNCHANGED <<routes_count, registered, latest, answers, threads, dicts>>

\* HTTPRouter.match
match(method, path) ==
    /\ OutsideTrie
    /\ outcome' = Call("match", method, path, router_match(nodes, method, path))
    /\ UNCHANGED <<nodes, routes_count, registered, latest, answers, threads,
                   dicts>>

\* HTTPRouter.match, the call and its result noted in answers
match_recorded(method, path) ==
    /\ OutsideTrie
    /\ outcome' = Call("match", method, path, router_match(nodes, method, path))
    /\ answers' = DictSet(answers, <<method, path>>,
                           [ result |-> outcome'.result,
                             again |-> <<method, path>> \in DOMAIN answers ])
    /\ UNCHANGED <<nodes, routes_count, registered, latest, threads, dicts>>

(***************************************************************************)
(* Specifications.  Each draws the arguments of the calls from small sets. *)
(***************************************************************************)
Handlers == {"h1", "h2"}
Methods == {"GET", "post", "TRACE"}

\* overlapping static, parameter and wildcard routes under /a, a second
\* spelling of /a/b, the root route and a wildcard that is not last
Patterns == {S_a_b, S_a_b_alt, S_a_id, S_a_rest, S_a_rest_b, S_slash}
Paths == {S_a_b, S_a_b_alt, S_a_x, S_a_x_y, S_a, S_empty, S_slash}

Next ==
    \/ /\ routes_count < MaxRoutes
       /\ \E method \in Methods, pattern \in Patterns, handler \in Handlers :
             add_route(method, pattern, handler)
    \/ \E method \in Methods, path \in Paths :
          match(method, path)

Spec == Init /\ [][Next]_vars

(***************************************************************************)
(* SpecPrecedence: /a/b, /a/{id} and /a/{*rest}, registered in any order   *)
(* for GET and POST, and requests for the three kinds of path.             *)
(***************************************************************************)
MaxPrecedenceRoutes == 3
PrecedenceMethods == {"GET", "POST"}
PrecedencePatterns == {S_a_b, S_a_id, S_a_rest}
PrecedencePaths == {S_a_b, S_a_x, S_a_x_y}

NextPrecedence ==
    \/ /\ routes_count < MaxPrecedenceRoutes
       /\ \E method \in PrecedenceMethods, pattern \in PrecedencePatterns,
             handler \in Handlers :
             add_route(method, pattern, handler)
    \/ \E method \in PrecedenceMethods, path \in PrecedencePaths :
          match(method, path)

SpecPrecedence == Init /\ [][NextPrecedence]_vars

(***************************************************************************)
(* SpecBacktrack: /a/{id}/fixed and /a/{*rest}, in either order.           *)
(***************************************************************************)
MaxBacktrackRoutes == 2
BacktrackMethods == {"GET", "POST"}
BacktrackPatterns == {S_a_id_fixed, S_a_rest}
BacktrackPaths == {S_a_123_other, S_a_123_fixed}

NextBacktrack ==
    \/ /\ routes_count < MaxBacktrackRoutes
       /\ \E method \in BacktrackMethods, pattern \in BacktrackPatterns,
             handler \in Handlers :
             add_route(method, pattern, handler)
    \/ \E method \in BacktrackMethods, path \in BacktrackPaths :
          match(method, path)

SpecBacktrack == Init /\ [][NextBacktrack]_vars

(***************************************************************************)
(* What the claims speak of.                                               *)
(***************************************************************************)
\* the last call was match(method, path), with the method as the enum member
Matched(method, path) ==
    /\ outcome.op = "match"
    /\ Upper(outcome.method) = method
    /\ outcome.arg = path

Registered(method, pattern) == <<method, pattern>> \in DOMAIN registered

Dict1(key, value) == [k \in {key} |-> value]

\* the match returned a RouteMatch with this handler and these parameters
Returned(handler, path_params) ==
    /\ outcome.result # None
    /\ Get(outcome.result).handler = handler
    /\ Get(outcome.result).path_params = path_params

(***************************************************************************)
(* C1.  Precedence static > parameter > wildcard: with /a/b, /a/{id} and   *)
(* /a/{*rest} all registered for GET, in any order, Match(GET, "/a/b")     *)
(* returns the static route's handler and no parameters, Match(GET,        *)
(* "/a/x") the parameter route's handler and exactly {id: "x"}, and        *)
(* Match(GET, "/a/x/y") the wildcard route's handler and exactly           *)
(* {rest: "x/y"}.                                                          *)
(***************************************************************************)
C1_AllThree ==
    /\ Registered("GET", S_a_b)
    /\ Registered("GET", S_a_id)
    /\ Registered("GET", S_a_rest)

C1_Precedence ==
    C1_AllThree =>
        /\ Matched("GET", S_a_b) =>
              Returned(registered[<<"GET", S_a_b>>], EmptyDict)
        /\ Matched("GET", S_a_x) =>
              Returned(registered[<<"GET", S_a_id>>], Dict1(S_id, <<"x">>))
        /\ Matched("GET", S_a_x_y) =>
              Returned(registered[<<"GET", S_a_rest>>],
                       Dict1(S_rest, <<"x", "/", "y">>))

\* the three routes carry different handlers than their neighbours and the
\* wildcard route has just answered /a/x/y
C1_Witness ==
    /\ C1_AllThree
    /\ registered[<<"GET", S_a_id>>] # registered[<<"GET", S_a_rest>>]
    /\ registered[<<"GET", S_a_id>>] # registered[<<"GET", S_a_b>>]
    /\ Matched("GET", S_a_x_y)
    /\ Returned(registered[<<"GET", S_a_rest>>], Dict1(S_rest, <<"x", "/", "y">>))

(***************************************************************************)
(* C2.  Match(method, path) returns NotFound if and only if no trie path   *)
(* consumes all the segments and ends at an endpoint that has a handler    *)
(* for the requested method: an endpoint that has handlers only for other  *)
(* methods does not end the search.                                        *)
(***************************************************************************)
\* the nodes at which a chain of edges from node consumes segments[index..]:
\* a static edge for an equal segment, the parameter edge for one segment,
\* the wildcard edge for all the remaining ones
RECURSIVE Terminals(_, _, _, _)
Terminals(N, node, segments, index) ==
    IF index >= Len(segments) THEN {node}
    ELSE LET seg == segments[index + 1]
         IN  (IF seg \in DOMAIN N[node].static_children
              THEN Terminals(N, N[node].static_children[seg], segments, index + 1)
              ELSE {})
             \cup
             (IF N[node].param_child # None
              THEN Terminals(N, Get(N[node].param_child), segments, index + 1)
              ELSE {})
             \cup
             (IF N[node].wildcard_child # None
              THEN {Get(N[node].wildcard_child)}
              ELSE {})

C2_NotFoundIffNoRoute ==
    (outcome.op = "match" /\ Upper(outcome.method) \in HTTPMethod) =>
        ( outcome.result = None
          <=> ~ \E n \in Terminals(nodes, Root, _parse_path(outcome.arg), 0) :
                   /\ nodes[n].is_endpoint
                   /\ Upper(outcome.method) \in DOMAIN nodes[n].handlers )

(***************************************************************************)
(* C3.  Backtracking: with /a/{id}/fixed and /a/{*rest} both registered    *)
(* for GET, in either order, Match(GET, "/a/123/other") returns the        *)
(* wildcard route's handler with exactly {rest: "123/other"}: no id        *)
(* binding is left from the abandoned parameter branch.                    *)
(***************************************************************************)
C3_Both ==
    /\ Registered("GET", S_a_id_fixed)
    /\ Registered("GET", S_a_rest)

C3_Backtracking ==
    (C3_Both /\ Matched("GET", S_a_123_other)) =>
        Returned(registered[<<"GET", S_a_rest>>],
                 Dict1(S_rest, <<"1", "2", "3", "/", "o", "t", "h", "e", "r">>))

C3_Witness ==
    /\ C3_Both
    /\ registered[<<"GET", S_a_id_fixed>>] # registered[<<"GET", S_a_rest>>]
    /\ Matched("GET", S_a_123_other)
    /\ outcome.result # None
    /\ DOMAIN Get(outcome.result).path_params = {S_rest}

(***************************************************************************)
(* C4.  Method sensitivity: Match never returns another method's handler;  *)
(* a RouteMatch carries a handler that was registered for the requested    *)
(* method, and a method for which nothing is registered gets NotFound      *)
(* (after /x for GET only, Match(POST, "/x") is NotFound).                 *)
(***************************************************************************)
C4_MethodSensitive ==
    (outcome.op = "match" /\ outcome.result # None) =>
        \E key \in DOMAIN latest :
            /\ key[1] = Upper(outcome.method)
            /\ latest[key].handler = Get(outcome.result).handler

\* /a/b carries a handler for GET only, other than every handler registered
\* for POST, and POST /a/b was answered NotFound
C4_Witness ==
    /\ Registered("GET", S_a_b)
    /\ \A key \in DOMAIN latest :
          key[1] = "POST" => /\ key[2] # _parse_pattern(S_a_b)
                             /\ latest[key].handler # registered[<<"GET", S_a_b>>]
    /\ Matched("POST", S_a_b)
    /\ outcome.result = None

(***************************************************************************)
(* C5.  Match with a method string outside the HTTP method set returns an  *)
(* UnsupportedMethod result that differs from the NotFound result of a     *)
(* valid method with no matching route.                                    *)
(***************************************************************************)
\* what RouteTrie.match returns for a valid method and no matching route
NotFound == None

C5_UnsupportedMethodDistinct ==
    (outcome.op = "match" /\ Upper(outcome.method) \notin HTTPMethod) =>
        outcome.result # NotFound

(***************************************************************************)
(* SpecWildcard: /files/{*path} and /files, and requests for /files and    *)
(* below it.                                                               *)
(***************************************************************************)
MaxWildcardRoutes == 2
WildcardMethods == {"GET", "POST"}
WildcardPatterns == {S_files_path, S_files}
WildcardPaths == {S_files, S_files_a_b}

NextWildcard ==
    \/ /\ routes_count < MaxWildcardRoutes
       /\ \E method \in WildcardMethods, pattern \in WildcardPatterns,
             handler \in Handlers :
             add_route(method, pattern, handler)
    \/ \E method \in WildcardMethods, path \in WildcardPaths :
          match(method, path)

SpecWildcard == Init /\ [][NextWildcard]_vars

(***************************************************************************)
(* C6.  A wildcard segment matches all remaining segments, zero or more:   *)
(* with /files/{*path} registered for m and no handler for m at /files,    *)
(* Match(m, "/files") returns the wildcard route's handler with path bound *)
(* to the empty string, and Match(m, "/files/a/b") with path bound to      *)
(* "a/b".                                                                  *)
(***************************************************************************)
C6_WildcardZeroOrMore ==
    \A m \in WildcardMethods :
        (Registered(m, S_files_path) /\ ~ Registered(m, S_files)) =>
            /\ Matched(m, S_files) =>
                  Returned(registered[<<m, S_files_path>>], Dict1(S_path, <<>>))
            /\ Matched(m, S_files_a_b) =>
                  Returned(registered[<<m, S_files_path>>],
                           Dict1(S_path, <<"a", "/", "b">>))

(***************************************************************************)
(* C7.  AddRoute with a pattern whose wildcard segment is not the last one *)
(* fails with MalformedPattern and leaves the trie unchanged, so that in   *)
(* every reachable trie a wildcard child has no children of any kind.      *)
(***************************************************************************)
IsWildcardSegment(segment) ==
    /\ StartsWith(segment, "{")
    /\ EndsWith(segment, "}")
    /\ StartsWith(Inner(segment), "*")

WildcardNotLast(pattern) ==
    LET segments == _parse_pattern(pattern)
    IN  \E i \in 1..Len(segments) : i < Len(segments) /\ IsWildcardSegment(segments[i])

C7_WildcardIsTerminal ==
    /\ (outcome.op = "add_route" /\ WildcardNotLast(outcome.arg)) =>
          outcome.result # None
    /\ \A n \in DOMAIN nodes :
          nodes[n].wildcard_child # None =>
              LET child == nodes[Get(nodes[n].wildcard_child)]
              IN  /\ DOMAIN child.static_children = {}
                  /\ child.param_child = None
                  /\ child.wildcard_child = None

(***************************************************************************)
(* C8.  Round trip: for every registered (method, pattern) whose pattern   *)
(* has no parameter or wildcard segment, Match(method, pattern) returns    *)
(* the handler most recently registered and no parameters, whatever other  *)
(* routes are registered.                                                  *)
(***************************************************************************)
IsStaticPattern(pattern) ==
    LET segments == _parse_pattern(pattern)
    IN  \A i \in 1..Len(segments) :
            ~ (StartsWith(segments[i], "{") /\ EndsWith(segments[i], "}"))

\* as claimed: the handler last registered for that very (method, pattern)
C8_RoundTripSamePair ==
    \A key \in DOMAIN registered :
        (IsStaticPattern(key[2]) /\ Matched(key[1], key[2])) =>
            Returned(registered[key], EmptyDict)

\* as amended: the handler last registered for that method under any
\* spelling of the same segment sequence (/a/b, a/b/)
C8_RoundTrip ==
    \A key \in DOMAIN registered :
        (IsStaticPattern(key[2]) /\ Matched(key[1], key[2])) =>
            Returned(latest[<<key[1], _parse_pattern(key[2])>>].handler, EmptyDict)

\* /a/b and /a/{id} are registered for GET with different handlers, both
\* fit the path /a/b, and GET /a/b got the static route's handler
C8_Witness ==
    /\ Registered("GET", S_a_b)
    /\ Registered("GET", S_a_id)
    /\ registered[<<"GET", S_a_id>>] # registered[<<"GET", S_a_b>>]
    /\ Matched("GET", S_a_b)
    /\ Returned(registered[<<"GET", S_a_b>>], EmptyDict)

(***************************************************************************)
(* C9.  Patterns and paths are normalized alike, so Match(method, p),      *)
(* Match(method, p + "/") and Match(method, "/" + p) return the same       *)
(* result in every trie state; "/a/b/" resolves as "/a/b" does, and the    *)
(* empty path and "/" both address the root route.                         *)
(***************************************************************************)
C9_Normalized ==
    outcome.op = "match" =>
        /\ outcome.result =
              router_match(nodes, outcome.method, outcome.arg \o <<SLASH>>)
        /\ outcome.result =
              router_match(nodes, outcome.method, <<SLASH>> \o outcome.arg)

\* the root route and /a/b are registered for GET, and the request that was
\* answered with a route is one whose spelling differs from the pattern's
C9_Witness ==
    /\ Registered("GET", S_a_b)
    /\ Matched("GET", S_a_b_alt)
    /\ outcome.result # None
    /\ router_match(nodes, "GET", S_empty) # None
    /\ router_match(nodes, "GET", S_empty) = router_match(nodes, "GET", S_slash)

(***************************************************************************)
(* SpecSegments: static routes only, /a/b/c and /a, and requests for       *)
(* shorter and longer paths.                                               *)
(***************************************************************************)
MaxSegmentRoutes == 2
SegmentMethods == {"GET", "POST"}
SegmentPatterns == {S_a_b_c, S_a}
SegmentPaths == {S_a, S_a_b, S_a_b_c, S_a_b_c_d, S_slash}

NextSegments ==
    \/ /\ routes_count < MaxSegmentRoutes
       /\ \E method \in SegmentMethods, pattern \in SegmentPatterns,
             handler \in Handlers :
             add_route(method, pattern, handler)
    \/ \E method \in SegmentMethods, path \in SegmentPaths :
          match(method, path)

SpecSegments == Init /\ [][NextSegments]_vars

(***************************************************************************)
(* C10.  Segment-count mismatch: when the only registered route is a       *)
(* static pattern of n segments (/a/b/c), Match for any strict prefix of   *)
(* it (/a/b) and for any extension of it (/a/b/c/d) returns NotFound; an   *)
(* intermediate trie node that carries no handler is never returned.       *)
(***************************************************************************)
IsStrictPrefix(s, t) == Len(s) < Len(t) /\ SubSeq(t, 1, Len(s)) = s

OnlyRegistered(pattern) ==
    /\ DOMAIN registered # {}
    /\ \A key \in DOMAIN registered : key[2] = pattern

C10_SegmentCount ==
    outcome.op = "match" =>
        LET path == _parse_path(outcome.arg)
        IN  /\ \A pattern \in SegmentPatterns :
                  ( /\ OnlyRegistered(pattern)
                    /\ \/ IsStrictPrefix(path, _parse_pattern(pattern))
                       \/ IsStrictPrefix(_parse_pattern(pattern), path) )
                  => outcome.result = None
            \* a RouteMatch comes from a node that has a handler: a route
            \* of exactly the request's segments is registered for the method
            /\ outcome.result # None =>
                  \E key \in DOMAIN registered :
                      /\ key[1] = Upper(outcome.method)
                      /\ _parse_pattern(key[2]) = path
                      /\ registered[key] = Get(outcome.result).handler

\* only /a/b/c is registered; the prefix /a/b, which ends at an
\* intermediate node, was answered NotFound, and the extension would be too
C10_Witness ==
    /\ OnlyRegistered(S_a_b_c)
    /\ Registered("GET", S_a_b_c)
    /\ Matched("GET", S_a_b)
    /\ outcome.result = None
    /\ Append(Append(Root, StaticEdge(<<"a">>)), StaticEdge(<<"b">>)) \in DOMAIN nodes
    /\ router_match(nodes, "GET", S_a_b_c_d) = None
    /\ router_match(nodes, "GET", S_a_b_c) # None

(***************************************************************************)
(* SpecRepeat: the routes are registered first; then the trie stays as it  *)
(* is and requests are repeated in any order, each answer being recorded.  *)
(***************************************************************************)
MaxRepeatRoutes == 2
RepeatMethods == {"GET"}
RepeatPatterns == {S_a_b, S_a_id, S_a_rest}
RepeatPaths == {S_a_b, S_a_x, S_a_x_y}

NextRepeat ==
    \/ /\ routes_count < MaxRepeatRoutes
       /\ answers = EmptyDict
       /\ \E method \in RepeatMethods, pattern \in RepeatPatterns,
             handler \in Handlers :
             add_route(method, pattern, handler)
    \/ \E method \in RepeatMethods, path \in RepeatPaths :
          match_recorded(method, path)

SpecRepeat == Init /\ [][NextRepeat]_vars

C12_ReadOnly ==
    [][ outcome'.op = "match" =>
            /\ DOMAIN nodes' = DOMAIN nodes
            /\ \A n \in DOMAIN nodes :
                  /\ nodes'[n].static_children = nodes[n].static_children
                  /\ nodes'[n].param_child = nodes[n].param_child
                  /\ nodes'[n].param_name = nodes[n].param_name
                  /\ nodes'[n].wildcard_child = nodes[n].wildcard_child
                  /\ nodes'[n].wildcard_name = nodes[n].wildcard_name
                  /\ nodes'[n].handlers = nodes[n].handlers
                  /\ nodes'[n].is_endpoint = nodes[n].is_endpoint
                  /\ nodes'[n].route_pattern = nodes[n].route_pattern
            /\ routes_count' = routes_count ]_vars

\* a request that backtracked out of a parameter branch was answered by the
\* wildcard route, and the trie still is the one the two add_route calls built
C12_Witness ==
    /\ C3_Both
    /\ Matched("GET", S_a_123_other)
    /\ outcome.result # None
    /\ routes_count = 2
    /\ Cardinality(DOMAIN nodes) = 5

C17_UnsupportedMethodNoMutation ==
    [][ ( /\ outcome'.op = "add_route"
          /\ Upper(outcome'.method) \notin HTTPMethod )
        => /\ outcome'.result = Some("ValueError")
           /\ nodes' = nodes
           /\ routes_count' = routes_count
           /\ \A method \in Methods, path \in Paths :
                 router_match(nodes', method, path)
                    = router_match(nodes, method, path) ]_vars

\* a TRACE registration was refused after a route had been registered
C17_Witness ==
    /\ outcome.op = "add_route"
    /\ outcome.method = "TRACE"
    /\ outcome.result = Some("ValueError")
    /\ routes_count = 1
    /\ Cardinality(DOMAIN nodes) > 1

(***************************************************************************)
(* SpecSegmentForms: patterns with a parameter between static segments,    *)
(* with brace segments that name nothing or are not closed, and paths      *)
(* with an empty segment.                                                  *)
(***************************************************************************)
S_a_id_b == <<"/", "a", "/", "{", "i", "d", "}", "/", "b">>    \* '/a/{id}/b'
S_a_empty == <<"/", "a", "/", "{", "}">>    \* '/a/{}'
S_a_star == <<"/", "a", "/", "{", "*", "}">>    \* '/a/{*}'
S_a_open == <<"/", "a", "/", "{", "i", "d">>    \* '/a/{id'
S_a__b == <<"/", "a", "/", "/", "b">>    \* '/a//b'
S_a_x_b == <<"/", "a", "/", "x", "/", "b">>    \* '/a/x/b'

MaxFormRoutes == 2
FormMethods == {"GET"}
FormPatterns == {S_a_id_b, S_a_empty, S_a_star, S_a_open}
FormPaths == {S_a__b, S_a_x_b, S_a_x}

NextSegmentForms ==
    \/ /\ routes_count < MaxFormRoutes
       /\ \E method \in FormMethods, pattern \in FormPatterns,
             handler \in Handlers :
             add_route(method, pattern, handler)
    \/ \E method \in FormMethods, path \in FormPaths :
          match(method, path)

SpecSegmentForms == Init /\ [][NextSegmentForms]_vars

\* a brace segment that is not closed or not opened, or that names nothing
IsMalformedSegment(segment) ==
    \/ StartsWith(segment, "{") /\ ~ EndsWith(segment, "}")
    \/ EndsWith(segment, "}") /\ ~ StartsWith(segment, "{")
    \/ segment = <<"{", "}">>
    \/ segment = <<"{", "*", "}">>

(***************************************************************************)
(* C18.  A pattern with a malformed brace segment (unbalanced braces, {}   *)
(* or {*}) is refused by add_route with an error, and no node has the      *)
(* empty string as its parameter name or wildcard name.                    *)
(***************************************************************************)
C18_MalformedRejected ==
    /\ \A n \in DOMAIN nodes :
          /\ nodes[n].param_name # Some(<<>>)
          /\ nodes[n].wildcard_name # Some(<<>>)
    /\ ( /\ outcome.op = "add_route"
         /\ \E i \in 1..Len(_parse_pattern(outcome.arg)) :
               IsMalformedSegment(_parse_pattern(outcome.arg)[i]) )
       => outcome.result # None

(***************************************************************************)
(* C19.  Every value bound through a parameter edge is a non-empty string: *)
(* in a RouteMatch no parameter name of the trie is bound to "", so        *)
(* "/a//b" is not matched to /a/{id}/b with id bound to "".                *)
(***************************************************************************)
C19_ParamValueNonEmpty ==
    ( /\ outcome.op = "match"
      /\ outcome.result # None )
    => \A name \in DOMAIN Get(outcome.result).path_params :
          (\E n \in DOMAIN nodes : nodes[n].param_name = Some(name))
             => Get(outcome.result).path_params[name] # <<>>

(***************************************************************************)
(* SpecNames: routes that end at one node under differently spelled        *)
(* patterns, /a/{id} and /a/{name}, for two methods.                       *)
(***************************************************************************)
S_a_name == <<"/", "a", "/", "{", "n", "a", "m", "e", "}">>    \* '/a/{name}'
S_name == <<"n", "a", "m", "e">>    \* 'name'

MaxNameRoutes == 2
NameMethods == {"GET", "POST"}
NamePatterns == {S_a_id, S_a_name}
NamePaths == {S_a_x}

NextNames ==
    \/ /\ routes_count < MaxNameRoutes
       /\ \E method \in NameMethods, pattern \in NamePatterns,
             handler \in Handlers :
             add_route(method, pattern, handler)
    \/ \E method \in NameMethods, path \in NamePaths :
          match(method, path)

SpecNames == Init /\ [][NextNames]_vars

(***************************************************************************)
(* C20.  The pattern string of every RouteMatch is the pattern that was    *)
(* passed to the add_route call which installed the returned handler: the  *)
(* latest registration for the requested method at some node has that      *)
(* handler and that pattern string.                                       *)
(***************************************************************************)
C20_OriginatingPattern ==
    ( /\ outcome.op = "match"
      /\ outcome.result # None )
    => \E key \in DOMAIN latest :
          /\ key[1] = Upper(outcome.method)
          /\ latest[key].handler = Get(outcome.result).handler
          /\ latest[key].pattern = Get(outcome.result).route_pattern

(***************************************************************************)
(* add_route statement by statement, executed by a thread.  The code       *)
(* takes no lock, so the statements of one call interleave with those of   *)
(* other calls.  A thread record holds the arguments and the locals        *)
(* (segments, current, the index of the loop) of the call; before and      *)
(* count_before note the trie and the counter as the call found them.      *)
(* A node made by a thread carries the thread's id in its last edge: two   *)
(* threads that both find a child missing make two different objects.      *)
(***************************************************************************)
SegmentKind(segment) ==
    IF StartsWith(segment, "{") /\ EndsWith(segment, "}")
    THEN IF StartsWith(Inner(segment), "*") THEN "wildcard" ELSE "param"
    ELSE "static"

\* what the test `... is None` / `not in ...` and the return statement of
\* _get_or_create_child read: the child in the segment's slot, if any
child_slot(N, node, segment) ==
    CASE SegmentKind(segment) = "wildcard" -> N[node].wildcard_child
      [] SegmentKind(segment) = "param" -> N[node].param_child
      [] OTHER -> IF segment \in DOMAIN N[node].static_children
                  THEN Some(N[node].static_children[segment])
                  ELSE None

\* the object TrieNode() makes when thread t executes it for this slot
NewNode(node, segment, t) ==
    CASE SegmentKind(segment) = "wildcard" -> Append(node, <<"wildcard", t>>)
      [] SegmentKind(segment) = "param" -> Append(node, <<"param", t>>)
      [] OTHER -> Append(node, <<"static", segment, t>>)

\* node.<slot> = TrieNode()   (lines 158, 164, 170)
assign_child(N, node, segment, child) ==
    [k \in (DOMAIN N) \cup {child} |->
        IF k = child THEN TrieNode
        ELSE IF k = node
             THEN CASE SegmentKind(segment) = "wildcard" ->
                         [N[node] EXCEPT !.wildcard_child = Some(child)]
                    [] SegmentKind(segment) = "param" ->
                         [N[node] EXCEPT !.param_child = Some(child)]
                    [] OTHER ->
                         [N[node] EXCEPT !.static_children =
                                             DictSet(@, segment, child)]
             ELSE N[k]]

\* node.wildcard_name = ... / node.param_name = ...   (lines 159, 165)
assign_name(N, node, segment) ==
    IF SegmentKind(segment) = "wildcard"
    THEN [N EXCEPT ![node].wildcard_name = Some(Rest(Inner(segment)))]
    ELSE [N EXCEPT ![node].param_name = Some(Inner(segment))]

Segment(w) == w.segments[w.index + 1]

\* HTTPRouter.add_route up to the loop of RouteTrie.add_route: the method is
\* converted (lines 254-257), the pattern parsed, current = self.root
add_route_begin(t, method, pattern, handler) ==
    /\ OutsideTrie
    /\ threads[t].pc = "idle"
    /\ UNCHANGED <<nodes, routes_count, registered, latest, answers, dicts>>
    /\ IF Upper(method) \in HTTPMethod
       THEN /\ threads' = [threads EXCEPT ![t] =
                 [ pc |-> IF _parse_pattern(pattern) = <<>> THEN "handlers"
                          ELSE "check",
                   op |-> "add_route",
                   method |-> Upper(method),
                   pattern |-> pattern,
                   handler |-> handler,
                   segments |-> _parse_pattern(pattern),
                   index |-> 0,
                   current |-> Root,
                   count |-> 0,
                   before |-> nodes,
                   count_before |-> routes_count ]]
            /\ UNCHANGED outcome
       ELSE /\ outcome' = Call("add_route", method, pattern, Some("ValueError"))
            /\ UNCHANGED threads

\* _get_or_create_child: the test whether the child is missing
add_route_check(t) ==
    LET w == threads[t]
    IN  /\ OutsideTrie
        /\ w.pc = "check"
        /\ threads' = [threads EXCEPT ![t].pc =
               IF child_slot(nodes, w.current, Segment(w)) = None
               THEN "create" ELSE "return"]
        /\ UNCHANGED <<nodes, routes_count, registered, latest, outcome,
                       answers, dicts>>

\* _get_or_create_child: the child is created and assigned to its slot
add_route_create(t) ==
    LET w == threads[t]
    IN  /\ OutsideTrie
        /\ w.pc = "create"
        /\ nodes' = assign_child(nodes, w.current, Segment(w),
                                 NewNode(w.current, Segment(w), t))
        /\ threads' = [threads EXCEPT ![t].pc =
               IF SegmentKind(Segment(w)) = "static" THEN "return" ELSE "name"]
        /\ UNCHANGED <<routes_count, registered, latest, outcome, answers,
                       dicts>>

\* _get_or_create_child: the parameter's or wildcard's name is assigned
add_route_name(t) ==
    LET w == threads[t]
    IN  /\ OutsideTrie
        /\ w.pc = "name"
        /\ nodes' = assign_name(nodes, w.current, Segment(w))
        /\ threads' = [threads EXCEPT ![t].pc = "return"]
        /\ UNCHANGED <<routes_count, registered, latest, outcome, answers,
                       dicts>>

\* _get_or_create_child returns the slot's content; the loop goes on
add_route_return(t) ==
    LET w == threads[t]
    IN  /\ OutsideTrie
        /\ w.pc = "return"
        /\ threads' = [threads EXCEPT ![t] =
               [w EXCEPT !.current = Get(child_slot(nodes, w.current, Segment(w))),
                         !.index = w.index + 1,
                         !.pc = IF w.index + 1 = Len(w.segments)
                                THEN "handlers" ELSE "check"]]
        /\ UNCHANGED <<nodes, routes_count, registered, latest, outcome,
                       answers, dicts>>

\* line 91: current.handlers[method] = handler
add_route_handlers(t) ==
    LET w == threads[t]
    IN  /\ OutsideTrie
        /\ w.pc = "handlers"
        /\ nodes' = [nodes EXCEPT ![w.current].handlers =
                                      DictSet(@, w.method, w.handler)]
        /\ registered' = DictSet(registered, <<w.method, w.pattern>>, w.handler)
        /\ latest' = DictSet(latest, <<w.method, w.segments>>,
                             [handler |-> w.handler, pattern |-> w.pattern])
        /\ threads' = [threads EXCEPT ![t].pc = "route_pattern"]
        /\ UNCHANGED <<routes_count, outcome, answers, dicts>>

\* line 92: current.route_pattern = pattern
add_route_route_pattern(t) ==
    LET w == threads[t]
    IN  /\ OutsideTrie
        /\ w.pc = "route_pattern"
        /\ nodes' = [nodes EXCEPT ![w.current].route_pattern = w.pattern]
        /\ threads' = [threads EXCEPT ![t].pc = "is_endpoint"]
        /\ UNCHANGED <<routes_count, registered, latest, outcome, answers,
                       dicts>>

\* line 93: current.is_endpoint = True
add_route_is_endpoint(t) ==
    LET w == threads[t]
    IN  /\ OutsideTrie
        /\ w.pc = "is_endpoint"
        /\ nodes' = [nodes EXCEPT ![w.current].is_endpoint = TRUE]
        /\ threads' = [threads EXCEPT ![t].pc = "count_load"]
        /\ UNCHANGED <<routes_count, registered, latest, outcome, answers,
                       dicts>>

\* line 259, self.routes_count += 1: the counter is loaded ...
add_route_count_load(t) ==
    LET w == threads[t]
    IN  /\ OutsideTrie
        /\ w.pc = "count_load"
        /\ threads' = [threads EXCEPT ![t] =
               [w EXCEPT !.count = routes_count, !.pc = "count_store"]]
        /\ UNCHANGED <<nodes, routes_count, registered, latest, outcome,
                       answers, dicts>>

\* ... and the sum is stored; the call returns
add_route_count_store(t) ==
    LET w == threads[t]
    IN  /\ OutsideTrie
        /\ w.pc = "count_store"
        /\ routes_count' = w.count + 1
        /\ outcome' = Call("add_route", w.method, w.pattern, None)
        /\ threads' = [threads EXCEPT ![t].pc = "done"]
        /\ UNCHANGED <<nodes, registered, latest, answers, dicts>>

\* a thread executes the next statement of its add_route call
add_route_step(t) ==
    \/ add_route_check(t)
    \/ add_route_create(t)
    \/ add_route_name(t)
    \/ add_route_return(t)
    \/ add_route_handlers(t)
    \/ add_route_route_pattern(t)
    \/ add_route_is_endpoint(t)
    \/ add_route_count_load(t)
    \/ add_route_count_store(t)

Writing(t) == threads[t].op = "add_route" /\ threads[t].pc # "done"
NoCallInProgress == \A t \in Threads : threads[t].pc \in {"idle", "done"}

(***************************************************************************)
(* SpecHotReload: a route is registered; then thread t1 registers another  *)
(* one statement by statement while requests are matched.                  *)
(***************************************************************************)
MaxHotRoutes == 1
HotMethods == {"GET", "POST"}
HotPatterns == {S_a_b, S_a_b_alt, S_a_id}
HotPaths == {S_a_b, S_a_x}

NextHotReload ==
    \/ /\ routes_count < MaxHotRoutes
       /\ \A t \in Threads : threads[t].pc = "idle"
       /\ \E method \in HotMethods, pattern \in HotPatterns, handler \in Handlers :
             add_route(method, pattern, handler)
    \/ \E method \in HotMethods, pattern \in HotPatterns, handler \in Handlers :
          add_route_begin("t1", method, pattern, handler)
    \/ add_route_step("t1")
    \/ \E method \in HotMethods, path \in HotPaths :
          match(method, path)

SpecHotReload == Init /\ [][NextHotReload]_vars

(***************************************************************************)
(* C13.  A Match that runs while an AddRoute is in progress returns what   *)
(* Match returns on the trie as it was before that AddRoute started or as  *)
(* it is after that AddRoute completed: handler, parameter map and pattern *)
(* string all from the same one of the two.                                *)
(***************************************************************************)
C13_NeverMidConstruction ==
    \A t \in Threads :
        ( /\ Writing(t)
          /\ outcome.op = "match" )
        => LET w == threads[t]
               after == trie_add_route(w.before, w.method, w.pattern, w.handler)
           IN  \/ outcome.result = router_match(w.before, outcome.method, outcome.arg)
               \/ outcome.result = router_match(after, outcome.method, outcome.arg)

(***************************************************************************)
(* SpecWriters: two threads each register one route on the empty router,   *)
(* statement by statement, in any interleaving.                            *)
(***************************************************************************)
WriterMethods == {"GET"}
WriterPatterns == {S_a_b, S_a_x, S_a_id}
WriterPaths == {S_a_b, S_a_x}

NextWriters ==
    \/ \E t \in Threads, method \in WriterMethods, pattern \in WriterPatterns,
          handler \in Handlers :
          add_route_begin(t, method, pattern, handler)
    \/ \E t \in Threads : add_route_step(t)

SpecWriters == Init /\ [][NextWriters]_vars

\* the trie two add_route calls leave on the empty router when the call of
\* thread first runs to its end before the call of thread second starts
Sequential(first, second) ==
    trie_add_route(
        trie_add_route([k \in {Root} |-> TrieNode], threads[first].method,
                       threads[first].pattern, threads[first].handler),
        threads[second].method, threads[second].pattern,
        threads[second].handler)

(***************************************************************************)
(* C14.  Two concurrent add_route calls leave the router as the two calls  *)
(* run one after the other, in one of the two orders, leave it: the route  *)
(* count has grown by two and every request is answered as on the trie of  *)
(* that sequential run, so both routes are matchable.                      *)
(***************************************************************************)
C14_Serialized ==
    (\A t \in Threads : threads[t].op = "add_route" /\ threads[t].pc = "done")
    => \E first \in Threads, second \in Threads :
          /\ first # second
          /\ routes_count = 2
          /\ \A method \in WriterMethods, path \in WriterPaths :
                router_match(nodes, method, path)
                   = router_match(Sequential(first, second), method, path)

(***************************************************************************)
(* match statement by statement, executed by a thread.  The recursion of   *)
(* _match_recursive is a stack of frames (node, index, position in the     *)
(* body, old_params); ret is the value the last finished call returned.    *)
(* The dicts of the call live in dicts: params is created by `params = {}` *)
(* and passed down by reference, path_params by params.copy().             *)
(***************************************************************************)
Frame(node, index) ==
    [ node |-> node, index |-> index, at |-> "base", old_params |-> EmptyDict ]

\* a dict kept by the trie and used by every call as its params
params_dict_shared(t) == <<"trie", "params">>

\* the object `params = {}` creates in the call of thread t (line 108)
params_dict(t) == <<t, "params">>

\* the object params.copy() creates in the call of thread t (line 114)
path_params_dict(t) == <<t, "path_params">>

Top(w) == w.stack[Len(w.stack)]
current_segment(w) == w.segments[Top(w).index + 1]

\* the executing frame moves to another statement of the body
Goto(w, at) == [w EXCEPT !.stack[Len(w.stack)].at = at]

\* the recursive call with index passed on as it is
Recurse_same_index(w, at, child) ==
    [w EXCEPT !.stack = Append([@ EXCEPT ![Len(@)].at = at],
                               Frame(child, Top(w).index))]

\* self._match_recursive(child, segments, index + 1, params)
Recurse(w, at, child) ==
    [w EXCEPT !.stack = Append([@ EXCEPT ![Len(@)].at = at],
                               Frame(child, Top(w).index + 1))]

\* return value: the frame is left; the outermost call returns to match()
Return(w, value) ==
    [w EXCEPT !.stack = SubSeq(@, 1, Len(@) - 1),
              !.ret = value,
              !.pc = IF Len(w.stack) = 1 THEN "finish" ELSE "call"]

Running(t, at) ==
    /\ threads[t].op = "match"
    /\ threads[t].pc = "call"
    /\ Top(threads[t]).at = at

\* HTTPRouter.match (lines 272-276) and RouteTrie.match up to the first call
\* of _match_recursive (lines 105-109)
match_begin(t, method, path) ==
    /\ OutsideTrie
    /\ threads[t].pc = "idle"
    /\ UNCHANGED <<nodes, routes_count, registered, latest, answers>>
    /\ IF Upper(method) \in HTTPMethod
       THEN /\ threads' = [threads EXCEPT ![t] =
                 [ pc |-> "call",
                   op |-> "match",
                   method |-> method,
                   path |-> path,
                   segments |-> _parse_path(path),
                   params |-> params_dict(t),
                   stack |-> <<Frame(Root, 0)>>,
                   ret |-> None,
                   result |-> None ]]
            /\ dicts' = DictSet(dicts, params_dict(t), EmptyDict)
            /\ UNCHANGED outcome
       ELSE /\ outcome' = Call("match", method, path, None)
            /\ UNCHANGED <<threads, dicts>>

\* lines 184-185: the base case
match_base(t) ==
    LET w == threads[t]
    IN  /\ OutsideTrie
        /\ Running(t, "base")
        /\ threads' = [threads EXCEPT ![t] =
               IF Top(w).index >= Len(w.segments)
               THEN Return(w, IF nodes[Top(w).node].is_endpoint
                              THEN Some(Top(w).node) ELSE None)
               ELSE Goto(w, "static")]
        /\ UNCHANGED <<nodes, routes_count, registered, latest, outcome,
                       answers, dicts>>

\* lines 190-196: Try 1, the call for the static child
match_static(t) ==
    LET w == threads[t]
    IN  /\ OutsideTrie
        /\ Running(t, "static")
        /\ threads' = [threads EXCEPT ![t] =
               IF current_segment(w) \in DOMAIN nodes[Top(w).node].static_children
               THEN Recurse(w, "static_result",
                            nodes[Top(w).node].static_children[current_segment(w)])
               ELSE Goto(w, "param")]
        /\ UNCHANGED <<nodes, routes_count, registered, latest, outcome,
                       answers, dicts>>

\* lines 197-198: if result: return result
match_static_result(t) ==
    LET w == threads[t]
    IN  /\ OutsideTrie
        /\ Running(t, "static_result")
        /\ threads' = [threads EXCEPT ![t] =
               IF w.ret # None THEN Return(w, w.ret) ELSE Goto(w, "param")]
        /\ UNCHANGED <<nodes, routes_count, registered, latest, outcome,
                       answers, dicts>>

\* lines 201-203: Try 2, old_params = params.copy()
match_param(t) ==
    LET w == threads[t]
    IN  /\ OutsideTrie
        /\ Running(t, "param")
        /\ threads' = [threads EXCEPT ![t] =
               IF nodes[Top(w).node].param_child # None
               THEN [w EXCEPT !.stack[Len(w.stack)] =
                        [@ EXCEPT !.at = "param_bind",
                                  !.old_params = dicts[w.params]]]
               ELSE Goto(w, "wildcard")]
        /\ UNCHANGED <<nodes, routes_count, registered, latest, outcome,
                       answers, dicts>>

\* lines 205-211: params[node.param_name] = current_segment and the call
match_param_bind(t) ==
    LET w == threads[t]
    IN  /\ OutsideTrie
        /\ Running(t, "param_bind")
        /\ dicts' = [dicts EXCEPT ![w.params] =
                        DictSet(@, Key(nodes[Top(w).node].param_name),
                                current_segment(w))]
        /\ threads' = [threads EXCEPT ![t] =
               Recurse(w, "param_result", Get(nodes[Top(w).node].param_child))]
        /\ UNCHANGED <<nodes, routes_count, registered, latest, outcome,
                       answers>>

\* lines 213-214: if result: return result
match_param_result(t) ==
    LET w == threads[t]
    IN  /\ OutsideTrie
        /\ Running(t, "param_result")
        /\ threads' = [threads EXCEPT ![t] =
               IF w.ret # None THEN Return(w, w.ret) ELSE Goto(w, "param_clear")]
        /\ UNCHANGED <<nodes, routes_count, registered, latest, outcome,
                       answers, dicts>>

\* line 217: params.clear()
match_param_clear(t) ==
    LET w == threads[t]
    IN  /\ OutsideTrie
        /\ Running(t, "param_clear")
        /\ dicts' = [dicts EXCEPT ![w.params] = EmptyDict]
        /\ threads' = [threads EXCEPT ![t] = Goto(w, "param_update")]
        /\ UNCHANGED <<nodes, routes_count, registered, latest, outcome,
                       answers>>

\* line 218: params.update(old_params)
match_param_update(t) ==
    LET w == threads[t]
        old_params == Top(w).old_params
    IN  /\ OutsideTrie
        /\ Running(t, "param_update")
        /\ dicts' = [dicts EXCEPT ![w.params] =
                        [k \in (DOMAIN @) \cup (DOMAIN old_params) |->
                            IF k \in DOMAIN old_params THEN old_params[k]
                            ELSE @[k]]]
        /\ threads' = [threads EXCEPT ![t] = Goto(w, "wildcard")]
        /\ UNCHANGED <<nodes, routes_count, registered, latest, outcome,
                       answers>>

\* line 221: Try 3, is there a wildcard child; line 231 when there is none
match_wildcard(t) ==
    LET w == threads[t]
    IN  /\ OutsideTrie
        /\ Running(t, "wildcard")
        /\ threads' = [threads EXCEPT ![t] =
               IF nodes[Top(w).node].wildcard_child # None
               THEN Goto(w, "wildcard_bind")
               ELSE Return(w, None)]
        /\ UNCHANGED <<nodes, routes_count, registered, latest, outcome,
                       answers, dicts>>

\* lines 223-224: params[node.wildcard_name] = remaining_path
match_wildcard_bind(t) ==
    LET w == threads[t]
        remaining_path ==
            Join(SubSeq(w.segments, Top(w).index + 1, Len(w.segments)))
    IN  /\ OutsideTrie
        /\ Running(t, "wildcard_bind")
        /\ dicts' = [dicts EXCEPT ![w.params] =
                        DictSet(@, Key(nodes[Top(w).node].wildcard_name),
                                remaining_path)]
        /\ threads' = [threads EXCEPT ![t] = Goto(w, "wildcard_endpoint")]
        /\ UNCHANGED <<nodes, routes_count, registered, latest, outcome,
                       answers>>

\* lines 227-231: the wildcard child is returned when it is an endpoint
match_wildcard_endpoint(t) ==
    LET w == threads[t]
        wildcard_child == nodes[Top(w).node].wildcard_child
    IN  /\ OutsideTrie
        /\ Running(t, "wildcard_endpoint")
        /\ threads' = [threads EXCEPT ![t] =
               IF wildcard_child # None /\ nodes[Get(wildcard_child)].is_endpoint
               THEN Return(w, wildcard_child)
               ELSE Return(w, None)]
        /\ UNCHANGED <<nodes, routes_count, registered, latest, outcome,
                       answers, dicts>>

\* what the caller holds: the RouteMatch with the content of its path_params
Deref(D, result) ==
    IF result = None THEN None
    ELSE Some([Get(result) EXCEPT !.path_params = D[@]])

\* lines 111-118: the RouteMatch, with a copy of params, or None
match_finish(t) ==
    LET w == threads[t]
        handler == w.ret
        method == Upper(w.method)
        hit == handler # None /\ method \in DOMAIN nodes[Get(handler)].handlers
        result == IF hit
                  THEN Some(RouteMatch(nodes[Get(handler)].handlers[method],
                                       path_params_dict(t),
                                       nodes[Get(handler)].route_pattern))
                  ELSE None
    IN  /\ OutsideTrie
        /\ w.op = "match"
        /\ w.pc = "finish"
        /\ dicts' = IF hit
                    THEN DictSet(dicts, path_params_dict(t), dicts[w.params])
                    ELSE dicts
        /\ threads' = [threads EXCEPT ![t] =
               [w EXCEPT !.pc = "done", !.result = result]]
        /\ outcome' = Call("match", w.method, w.path, Deref(dicts', result))
        /\ UNCHANGED <<nodes, routes_count, registered, latest, answers>>

\* a thread executes the next statement of its match call
match_step(t) ==
    \/ match_base(t)
    \/ match_static(t)
    \/ match_static_result(t)
    \/ match_param(t)
    \/ match_param_bind(t)
    \/ match_param_result(t)
    \/ match_param_clear(t)
    \/ match_param_update(t)
    \/ match_wildcard(t)
    \/ match_wildcard_bind(t)
    \/ match_wildcard_endpoint(t)
    \/ match_finish(t)

(***************************************************************************)
(* SpecReaders: routes are registered; then the trie stays as it is and    *)
(* two threads each match one request, statement by statement, in any      *)
(* interleaving.                                                           *)
(***************************************************************************)
MaxReaderRoutes == 2
ReaderMethods == {"GET"}

NextReaders ==
    \/ /\ routes_count < MaxReaderRoutes
       /\ \A t \in Threads : threads[t].pc = "idle"
       /\ \E method \in ReaderMethods, pattern \in BacktrackPatterns,
             handler \in Handlers :
             add_route(method, pattern, handler)
    \/ \E t \in Threads, method \in ReaderMethods, path \in BacktrackPaths :
          match_begin(t, method, path)
    \/ \E t \in Threads : match_step(t)

SpecReaders == Init /\ [][NextReaders]_vars

\* the dicts of the call of thread t
OwnDicts(t) == {params_dict(t), path_params_dict(t)} \cap DOMAIN dicts

(***************************************************************************)
(* C15.  The parameter state of a match is local to the call: with the     *)
(* trie not being modified and the calls of two threads interleaved in any *)
(* way, a call returns what it returns when run alone, a step of one       *)
(* thread changes no dict of the other thread's call, and the map inside a *)
(* returned RouteMatch stays as it was returned.                           *)
(***************************************************************************)
C15_CallLocal ==
    [][ /\ \A t \in Threads :
              (threads'[t].op = "match" /\ threads'[t].pc = "done")
              => Deref(dicts', threads'[t].result)
                    = router_match(nodes', threads'[t].method, threads'[t].path)
        /\ \A t \in Threads :
              threads'[t] = threads[t]
              => \A d \in OwnDicts(t) : dicts'[d] = dicts[d]
        /\ \A t \in Threads :
              (threads[t].op = "match" /\ threads[t].pc = "done")
              => Deref(dicts', threads'[t].result)
                    = Deref(dicts, threads[t].result) ]_vars

\* both calls are in progress: the search of t1 has bound id, rolled it back
\* and ended at the wildcard route with rest bound in its params, while the
\* search of t2 is below the parameter node with id bound in its params
C15_Witness ==
    /\ \A t \in Threads : threads[t].op = "match"
    /\ threads["t1"].path = S_a_123_other
    /\ threads["t1"].pc = "finish"
    /\ threads["t1"].ret # None
    /\ dicts[params_dict("t1")]
          = Dict1(S_rest, <<"1", "2", "3", "/", "o", "t", "h", "e", "r">>)
    /\ threads["t2"].path = S_a_123_fixed
    /\ threads["t2"].pc = "call"
    /\ Len(threads["t2"].stack) = 3
    /\ dicts[params_dict("t2")] = Dict1(S_id, <<"1", "2", "3">>)

\* the segment that names a parameter (wildcard) name in a pattern
ParamSegment(name) == <<"{">> \o name \o <<"}">>
WildcardSegment(name) == <<"{", "*">> \o name \o <<"}">>

\* segment occurs in the pattern of the add_route call just made
InPattern(segment, pattern) ==
    \E i \in 1..Len(_parse_pattern(pattern)) : _parse_pattern(pattern)[i] = segment

get_stats ==
    [ total_routes |-> routes_count, supported_methods |-> HTTPMethod ]

\* the (node, method) handler entries of the trie
HandlerEntries ==
    UNION { {<<n, method>> : method \in DOMAIN nodes[n].handlers} :
            n \in DOMAIN nodes }

(***************************************************************************)
(* C22.  The route count reported by get_stats equals the number of        *)
(* registered routes, the distinct (method, trie node) handler entries:    *)
(* registering a pair again does not increase it and a failed add_route    *)
(* does not change it.                                                     *)
(***************************************************************************)
C22_CountIsRoutes ==
    get_stats.total_routes = Cardinality(HandlerEntries)

(***************************************************************************)
(* Parking Lot: Entry.issue_ticket in its three parts (search_spot,        *)
(* allocate_spot, the ParkingTicket), each gate running in its own thread, *)
(* and Exit.make_and_verify_payment.                                       *)
(***************************************************************************)
\* Small / Compact / Accessible / Large .allow_types
allow_types ==
    [ SMALL |-> {"BIKE"}, COMPACT |-> {"BIKE", "CAR"},
      ACCESSIBLE |-> {"BIKE", "CAR"}, LARGE |-> {"BIKE", "CAR", "TRUCK"} ]

canFitVehicle(spot, vehicle) == Vehicles[vehicle].type \in allow_types[spot_type[spot]]

\* ParkingFloors.scan: level -> the FREE spots of the level that take the
\* vehicle (floor.spots is a set: the order within a level is not fixed)
scan(status, vehicle) ==
    [ level \in 1..Len(Levels) |->
        { spot \in Levels[level] :
            /\ status[spot] = "FREE"
            /\ \/ ( /\ Vehicles[vehicle].is_challenged_driver
                    /\ spot_type[spot] = "ACCESSIBLE" )
               \/ canFitVehicle(spot, vehicle) } ]

\* the lists search_spot takes spots[0] from: those of the first level that
\* has any
FirstChoices(data) ==
    IF \A level \in DOMAIN data : data[level] = {} THEN {}
    ELSE data[CHOOSE level \in DOMAIN data :
                 /\ data[level] # {}
                 /\ \A lower \in DOMAIN data : lower < level => data[lower] = {}]

ParkingTicket(vehicle, spot) ==
    [ vehicle |-> vehicle, spot |-> spot, status |-> "UNPAID" ]

\* the vehicle holds no unpaid ticket and is at no gate
Arriving(vehicle) ==
    /\ \A i \in 1..Len(tickets) :
          tickets[i].vehicle = vehicle => tickets[i].status = "PAID"
    /\ \A gate \in Gates :
          gates[gate].pc # "idle" => gates[gate].vehicle # vehicle

\* Entry.search_spot; "Parking Full!!" leaves the gate as it was
search_spot(gate, vehicle) ==
    /\ OutsideLot
    /\ gates[gate].pc = "idle"
    /\ Arriving(vehicle)
    /\ LET choices == FirstChoices(scan(spot_status, vehicle))
       IN  IF choices = {}
           THEN UNCHANGED gates
           ELSE \E spot \in choices :
                   gates' = [gates EXCEPT ![gate] =
                               [ pc |-> "allocate_spot", vehicle |-> vehicle,
                                 spot |-> spot ]]
    /\ UNCHANGED <<spot_status, tickets>>

\* Entry.allocate_spot: the lock is made by the call itself, so it excludes
\* no other gate
allocate_spot(gate) ==
    /\ OutsideLot
    /\ gates[gate].pc = "allocate_spot"
    /\ spot_status' = [spot_status EXCEPT ![gates[gate].spot] = "OCCUPIED"]
    /\ gates' = [gates EXCEPT ![gate].pc = "ticket"]
    /\ UNCHANGED tickets

\* Entry.issue_ticket, line 290: the ticket for self.spot
issue_ticket(gate) ==
    /\ OutsideLot
    /\ gates[gate].pc = "ticket"
    /\ tickets' = Append(tickets,
                         ParkingTicket(gates[gate].vehicle, gates[gate].spot))
    /\ gates' = [gates EXCEPT ![gate] = GateIdle]
    /\ UNCHANGED spot_status

\* Exit.make_and_verify_payment (pay returns True): the status of the ticket
\* is not looked at, so the call runs the same for a ticket already PAID
make_and_verify_payment(i) ==
    /\ OutsideLot
    /\ spot_status' = [spot_status EXCEPT ![tickets[i].spot] = "FREE"]
    /\ tickets' = [tickets EXCEPT ![i].status = "PAID"]
    /\ UNCHANGED gates

(***************************************************************************)
(* SpecParkingLot: vehicles arrive at the two gates, which work            *)
(* concurrently, and leave through the exit.                               *)
(***************************************************************************)
MaxTickets == 3

Entering == Cardinality({gate \in Gates : gates[gate].pc # "idle"})

NextParkingLot ==
    \/ /\ Len(tickets) + Entering < MaxTickets
       /\ \E gate \in Gates, vehicle \in DOMAIN Vehicles :
             search_spot(gate, vehicle)
    \/ \E gate \in Gates : allocate_spot(gate)
    \/ \E gate \in Gates : issue_ticket(gate)
    \/ \E i \in 1..Len(tickets) : make_and_verify_payment(i)

SpecParkingLot == Init /\ [][NextParkingLot]_vars

(***************************************************************************)
(* C23.  No parking spot is assigned to two vehicles at once: at no time   *)
(* do two UNPAID tickets reference the same spot, whatever the             *)
(* interleaving of search_spot and allocate_spot of the entry gates.       *)
(***************************************************************************)
C23_NoDoubleAssignment ==
    \A i, j \in 1..Len(tickets) :
        ( /\ i # j
          /\ tickets[i].status = "UNPAID"
          /\ tickets[j].status = "UNPAID" )
        => tickets[i].spot # tickets[j].spot

(***************************************************************************)
(* C26.  Backtracking is transactional at every level: whenever            *)
(* _match_recursive, entered on any node at any index of a path with a     *)
(* parameter map, returns no match, it leaves the map exactly as it was    *)
(* when the call was entered.                                              *)
(***************************************************************************)
C26_Transactional ==
    \A node \in DOMAIN nodes, path \in Paths :
        \A index \in 0..Len(_parse_path(path)) :
            LET left == _match_recursive(nodes, node, _parse_path(path), index,
                                         EmptyDict)
            IN  left.node = None => left.params = EmptyDict

\* the orders in which the routes of a set can be registered
Orders(route_set) ==
    { order \in [1..Cardinality(route_set) -> route_set] :
        \A route \in route_set : \E i \in DOMAIN order : order[i] = route }

\* the trie after registering, on the empty trie, the (method, pattern)
\* pairs of order one after the other with the handlers they have in table
RECURSIVE Build(_, _, _)
Build(N, order, table) ==
    IF order = <<>> THEN N
    ELSE Build(trie_add_route(N, Head(order)[1], Head(order)[2],
                              table[Head(order)]),
               Tail(order), table)

HandlerOf(result) ==
    IF result = None THEN None ELSE Some(Get(result).handler)

(***************************************************************************)
(* C27.  Registration order does not affect which route wins: when no two  *)
(* of the registered routes address the same trie node with the same       *)
(* method, then for every order in which the same routes can be registered *)
(* and every (method, path), Match on the trie of that order returns the   *)
(* handler it returns on the trie that was built.                          *)
(***************************************************************************)
C27_OrderIndependent ==
    routes_count = Cardinality(HandlerEntries)
    => \A order \in Orders(DOMAIN registered) :
          LET built == Build([k \in {Root} |-> TrieNode], order, registered)
          IN  \A method \in PrecedenceMethods, path \in PrecedencePaths :
                 HandlerOf(router_match(built, method, path))
                    = HandlerOf(router_match(nodes, method, path))

\* three routes on three nodes were registered, the static route last and
\* with another handler than the wildcard route, and /a/b gets the static one
C27_Witness ==
    /\ routes_count = 3
    /\ Cardinality(HandlerEntries) = 3
    /\ Registered("GET", S_a_b) /\ registered[<<"GET", S_a_b>>] = "h1"
    /\ Registered("GET", S_a_rest) /\ registered[<<"GET", S_a_rest>>] = "h2"
    /\ Registered("POST", S_a_id)
    /\ outcome.op = "add_route"
    /\ outcome.arg = S_a_b
    /\ HandlerOf(router_match(nodes, "GET", S_a_b)) = Some("h1")
    /\ HandlerOf(router_match(nodes, "GET", S_a_x)) = None

(***************************************************************************)
(* C28.  After any sequence of completed add_route calls, a node's         *)
(* endpoint flag is true if and only if its handler table is non-empty,    *)
(* and a node that is only an intermediate step of a path has the flag     *)
(* false and the empty pattern string.                                     *)
(***************************************************************************)
C28_EndpointIffHandlers ==
    \A n \in DOMAIN nodes :
        /\ nodes[n].is_endpoint = (DOMAIN nodes[n].handlers # {})
        /\ DOMAIN nodes[n].handlers = {}
              => /\ ~ nodes[n].is_endpoint
                 /\ nodes[n].route_pattern = <<>>

\* /a/b and /a/{*rest}/b are registered: their terminal nodes are endpoints
\* with a handler and the three nodes they pass through are not
C28_Witness ==
    /\ Registered("GET", S_a_b)
    /\ Registered("GET", S_a_rest_b)
    /\ Cardinality({n \in DOMAIN nodes : nodes[n].is_endpoint}) = 2
    /\ Cardinality({n \in DOMAIN nodes : DOMAIN nodes[n].handlers = {}}) = 3

(***************************************************************************)
(* SpecReadersFair: SpecReaders with every thread that is in a call        *)
(* eventually executing its next statement.                                *)
(***************************************************************************)
SpecReadersFair ==
    SpecReaders /\ \A t \in Threads : WF_vars(match_step(t))

(***************************************************************************)
(* C29.  Every match call terminates: the recursion level k works on       *)
(* segment index k - 1, so the index grows by one with every recursive     *)
(* call and the depth never exceeds the number of segments plus one; a     *)
(* step of the wildcard branch never calls deeper; and every call that was *)
(* started returns.                                                        *)
(***************************************************************************)
C29_Terminates ==
    /\ [] ( \A t \in Threads :
              (threads[t].op = "match" /\ threads[t].pc = "call")
              => /\ Len(threads[t].stack) <= Len(threads[t].segments) + 1
                 /\ \A k \in 1..Len(threads[t].stack) :
                       threads[t].stack[k].index = k - 1 )
    /\ [][ \A t \in Threads :
              ( \/ Running(t, "wildcard")
                \/ Running(t, "wildcard_bind")
                \/ Running(t, "wildcard_endpoint") )
              => Len(threads'[t].stack) <= Len(threads[t].stack) ]_vars
    /\ \A t \in Threads :
          (threads[t].op = "match") ~> (threads[t].pc = "done")

\* the search for /a/123/fixed is at its deepest: four activations for three
\* segments, the last one at the base case
C29_Witness ==
    /\ threads["t1"].op = "match"
    /\ threads["t1"].pc = "call"
    /\ threads["t1"].path = S_a_123_fixed
    /\ Len(threads["t1"].stack) = 4
    /\ Top(threads["t1"]).index = 3

(***************************************************************************)
(* C30.  In every RouteMatch the parameter map corresponds to the returned *)
(* pattern string: it has one entry per parameter or wildcard segment of   *)
(* that pattern, under the name written there; a parameter's value is the  *)
(* path segment at the same position and the wildcard's value is the       *)
(* remaining path segments joined by "/".                                  *)
(***************************************************************************)
C30_ParamsFollowPattern ==
    ( /\ outcome.op = "match"
      /\ outcome.result # None )
    => LET segments == _parse_pattern(Get(outcome.result).route_pattern)
           path == _parse_path(outcome.arg)
           path_params == Get(outcome.result).path_params
           Dynamic == {i \in 1..Len(segments) : SegmentKind(segments[i]) # "static"}
       IN  /\ Cardinality(DOMAIN path_params) = Cardinality(Dynamic)
           /\ \A i \in Dynamic :
                 /\ i <= Len(path)
                 /\ IF SegmentKind(segments[i]) = "param"
                    THEN /\ Inner(segments[i]) \in DOMAIN path_params
                         /\ path_params[Inner(segments[i])] = path[i]
                    ELSE /\ Rest(Inner(segments[i])) \in DOMAIN path_params
                         /\ path_params[Rest(Inner(segments[i]))]
                               = Join(SubSeq(path, i, Len(path)))

(***************************************************************************)
(* Basic-Logger: Logger() statement by statement.  __new__ takes the class *)
(* lock around the second test and the creation; __init__ takes no lock.   *)
(***************************************************************************)
\* line 135: if cls._instance is None (outside the lock)
Logger_new_check(c) ==
    /\ OutsideLogger
    /\ callers[c].pc = "idle"
    /\ callers' = [callers EXCEPT ![c].pc =
          IF logger_instance = None THEN "acquire" ELSE "new_return"]
    /\ UNCHANGED <<logger_instance, logger_lock, initialized, init_runs,
                   appenders, log_queue, batch, shutdown_event, delivered,
                   consumer, shutdown_call, logged, accepted>>

\* line 136: with cls._lock
Logger_new_acquire(c) ==
    /\ OutsideLogger
    /\ callers[c].pc = "acquire"
    /\ logger_lock = None
    /\ logger_lock' = Some(c)
    /\ callers' = [callers EXCEPT ![c].pc = "recheck"]
    /\ UNCHANGED <<logger_instance, initialized, init_runs, appenders,
                   log_queue, batch, shutdown_event, delivered, consumer,
                   shutdown_call, logged, accepted>>

\* line 137: the second test, under the lock; the lock is released when the
\* instance exists
Logger_new_recheck(c) ==
    /\ OutsideLogger
    /\ callers[c].pc = "recheck"
    /\ IF logger_instance = None
       THEN /\ callers' = [callers EXCEPT ![c].pc = "create"]
            /\ UNCHANGED logger_lock
       ELSE /\ callers' = [callers EXCEPT ![c].pc = "new_return"]
            /\ logger_lock' = None
    /\ UNCHANGED <<logger_instance, initialized, init_runs, appenders,
                   log_queue, batch, shutdown_event, delivered, consumer,
                   shutdown_call, logged, accepted>>

\* line 138: cls._instance = super().__new__(cls)
Logger_new_create(c) ==
    /\ OutsideLogger
    /\ callers[c].pc = "create"
    /\ logger_instance' = Some(c)
    /\ callers' = [callers EXCEPT ![c].pc = "flag"]
    /\ UNCHANGED <<logger_lock, initialized, init_runs, appenders, log_queue,
                   batch, shutdown_event, delivered, consumer, shutdown_call,
                   logged, accepted>>

\* line 139: cls._instance._initialized = False; the with block ends
Logger_new_flag(c) ==
    /\ OutsideLogger
    /\ callers[c].pc = "flag"
    /\ initialized' = Some(FALSE)
    /\ logger_lock' = None
    /\ callers' = [callers EXCEPT ![c].pc = "new_return"]
    /\ UNCHANGED <<logger_instance, init_runs, appenders, log_queue, batch,
                   shutdown_event, delivered, consumer, shutdown_call, logged,
                   accepted>>

\* line 140: return cls._instance
Logger_new_return(c) ==
    /\ OutsideLogger
    /\ callers[c].pc = "new_return"
    /\ callers' = [callers EXCEPT ![c] =
          [pc |-> "init_check", self |-> logger_instance]]
    /\ UNCHANGED <<logger_instance, logger_lock, initialized, init_runs,
                   appenders, log_queue, batch, shutdown_event, delivered,
                   consumer, shutdown_call, logged, accepted>>

\* lines 143-144: if self._initialized: return; the attribute may not be
\* there yet (AttributeError)
Logger_init_check(c) ==
    /\ OutsideLogger
    /\ callers[c].pc = "init_check"
    /\ callers' = [callers EXCEPT ![c].pc =
          IF initialized = None THEN "raised"
          ELSE IF Get(initialized) THEN "done" ELSE "init_set"]
    /\ UNCHANGED <<logger_instance, logger_lock, initialized, init_runs,
                   appenders, log_queue, batch, shutdown_event, delivered,
                   consumer, shutdown_call, logged, accepted>>

\* line 146: self._initialized = True
Logger_init_set(c) ==
    /\ OutsideLogger
    /\ callers[c].pc = "init_set"
    /\ initialized' = Some(TRUE)
    /\ callers' = [callers EXCEPT ![c].pc = "init_body"]
    /\ UNCHANGED <<logger_instance, logger_lock, init_runs, appenders,
                   log_queue, batch, shutdown_event, delivered, consumer,
                   shutdown_call, logged, accepted>>

\* lines 147-163: appenders, the log queue, the shutdown event and the
\* consumer thread are made
Logger_init_body(c) ==
    /\ OutsideLogger
    /\ callers[c].pc = "init_body"
    /\ init_runs' = init_runs + 1
    /\ appenders' = <<>>
    /\ log_queue' = <<>>
    /\ shutdown_event' = FALSE
    /\ consumer' = "while"
    /\ batch' = <<>>
    /\ callers' = [callers EXCEPT ![c].pc = "done"]
    /\ UNCHANGED <<logger_instance, logger_lock, initialized, delivered,
                   shutdown_call, logged, accepted>>

\* a thread executes the next statement of Logger()
Logger_step(c) ==
    \/ Logger_new_check(c)
    \/ Logger_new_acquire(c)
    \/ Logger_new_recheck(c)
    \/ Logger_new_create(c)
    \/ Logger_new_flag(c)
    \/ Logger_new_return(c)
    \/ Logger_init_check(c)
    \/ Logger_init_set(c)
    \/ Logger_init_body(c)

(***************************************************************************)
(* SpecSingleton: three threads construct Logger() concurrently.           *)
(***************************************************************************)
NextSingleton == \E c \in Callers : Logger_step(c)

SpecSingleton == Init /\ [][NextSingleton]_vars

(***************************************************************************)
(* C25.  The logger is a thread-safe singleton: under every interleaving   *)
(* of concurrent Logger() constructions no construction fails, all callers *)
(* obtain the same instance, and the body of __init__ runs not more than   *)
(* once and has run when a constructor has returned, so there is exactly   *)
(* one log queue and one consumer thread.                                  *)
(***************************************************************************)
C25_Singleton ==
    /\ init_runs <= 1
    /\ \A c \in Callers :
          /\ callers[c].pc # "raised"
          /\ callers[c].pc = "done" => init_runs = 1
    /\ \A c, d \in Callers :
          (callers[c].pc = "done" /\ callers[d].pc = "done")
          => callers[c].self = callers[d].self

(***************************************************************************)
(* Basic-Logger: producers, the consumer thread and shutdown().  The queue *)
(* capacity and the batch size are scaled down from 10000 and 100.         *)
(***************************************************************************)
maxsize == 2
batch_size == 2
MaxMessages == 3
Levels_logged == {"DEBUG", "INFO"}

\* LogMessage(level, message); the timestamp, thread id and metadata play
\* no part in delivery
LogMessage(level, message) == [level |-> level, message |-> message]

\* PlainTextFormatter.format: the level name and the message text
PlainTextFormatter_format(log_message) ==
    <<"[", log_message.level, "]", log_message.message>>

_should_log(level) == LogLevel[level] >= LogLevel[min_level]

\* the logger has been constructed by its owner
Constructed == callers["c1"].pc = "done"

\* add_appender, called while the logger is set up (before the first log)
add_appender(appender) ==
    /\ OutsideLogger
    /\ Constructed
    /\ logged = 0
    /\ \A k \in 1..Len(appenders) : appenders[k] # appender
    /\ appenders' = Append(appenders, appender)
    /\ UNCHANGED <<logger_instance, logger_lock, initialized, init_runs,
                   callers, log_queue, batch, shutdown_event, delivered,
                   consumer, shutdown_call, logged, accepted>>

\* _log: a message below min_level is ignored; otherwise it is put into the
\* queue, or dropped by _handle_queue_full when the queue is full
_log(level, message) ==
    /\ OutsideLogger
    /\ Constructed
    /\ logged' = logged + 1
    /\ IF _should_log(level) /\ Len(log_queue) < maxsize
       THEN /\ log_queue' = Append(log_queue, LogMessage(level, message))
            /\ accepted' = IF shutdown_call = "idle"
                           THEN Append(accepted, LogMessage(level, message))
                           ELSE accepted
       ELSE UNCHANGED <<log_queue, accepted>>
    /\ UNCHANGED <<logger_instance, logger_lock, initialized, init_runs,
                   callers, appenders, batch, shutdown_event, delivered,
                   consumer, shutdown_call>>

\* _flush_batch: every message of the batch, formatted, to every appender
RECURSIVE _flush_batch(_, _)
_flush_batch(to, messages) ==
    IF messages = <<>> THEN to
    ELSE _flush_batch(
            [a \in DOMAIN to |->
                IF \E k \in 1..Len(appenders) : appenders[k] = a
                THEN Append(to[a], PlainTextFormatter_format(Head(messages)))
                ELSE to[a]],
            Tail(messages))

\* line 217: while not self.shutdown_event.is_set()
consume_while ==
    /\ OutsideLogger
    /\ consumer = "while"
    /\ consumer' = IF shutdown_event THEN "final" ELSE "get"
    /\ UNCHANGED <<logger_instance, logger_lock, initialized, init_runs,
                   callers, appenders, log_queue, batch, shutdown_event,
                   delivered, shutdown_call, logged, accepted>>

\* lines 220-225: get(timeout=1.0) appends a message to the batch, or times
\* out on an empty queue
consume_get ==
    /\ OutsideLogger
    /\ consumer = "get"
    /\ IF log_queue # <<>>
       THEN /\ batch' = Append(batch, Head(log_queue))
            /\ log_queue' = Tail(log_queue)
       ELSE UNCHANGED <<batch, log_queue>>
    /\ consumer' = "check"
    /\ UNCHANGED <<logger_instance, logger_lock, initialized, init_runs,
                   callers, appenders, shutdown_event, delivered,
                   shutdown_call, logged, accepted>>

\* lines 228-236: flush when the batch is full or batch_timeout has passed
consume_check ==
    /\ OutsideLogger
    /\ consumer = "check"
    /\ \E timed_out \in BOOLEAN :
          LET should_flush == \/ Len(batch) >= batch_size
                              \/ (batch # <<>> /\ timed_out)
          IN  IF should_flush
              THEN /\ delivered' = _flush_batch(delivered, batch)
                   /\ batch' = <<>>
              ELSE UNCHANGED <<delivered, batch>>
    /\ consumer' = "while"
    /\ UNCHANGED <<logger_instance, logger_lock, initialized, init_runs,
                   callers, appenders, log_queue, shutdown_event,
                   shutdown_call, logged, accepted>>

\* lines 242-243: after the loop the remaining batch is flushed and the
\* thread ends
consume_final ==
    /\ OutsideLogger
    /\ consumer = "final"
    /\ delivered' = _flush_batch(delivered, batch)
    /\ batch' = <<>>
    /\ consumer' = "exited"
    /\ UNCHANGED <<logger_instance, logger_lock, initialized, init_runs,
                   callers, appenders, log_queue, shutdown_event,
                   shutdown_call, logged, accepted>>

\* the consumer thread executes its next statement
_consume_logs ==
    \/ consume_while
    \/ consume_get
    \/ consume_check
    \/ consume_final

\* line 282: self.shutdown_event.set()
shutdown_set ==
    /\ OutsideLogger
    /\ Constructed
    /\ shutdown_call = "idle"
    /\ shutdown_event' = TRUE
    /\ shutdown_call' = "join"
    /\ UNCHANGED <<logger_instance, logger_lock, initialized, init_runs,
                   callers, appenders, log_queue, batch, delivered, consumer,
                   logged, accepted>>

\* lines 285-286: join(timeout=10.0) returns when the consumer thread has
\* ended or when the ten seconds have passed
shutdown_join ==
    /\ OutsideLogger
    /\ shutdown_call = "join"
    /\ \E timed_out \in BOOLEAN : consumer = "exited" \/ timed_out
    /\ shutdown_call' = "returned"
    /\ UNCHANGED <<logger_instance, logger_lock, initialized, init_runs,
                   callers, appenders, log_queue, batch, shutdown_event,
                   delivered, consumer, logged, accepted>>

(***************************************************************************)
(* SpecShutdown: one thread constructs the logger and registers appenders; *)
(* messages are logged while the consumer runs, and shutdown() is called.  *)
(***************************************************************************)
NextShutdown ==
    \/ Logger_step("c1")
    \/ \E appender \in Appenders : add_appender(appender)
    \/ \E level \in Levels_logged :
          logged < MaxMessages /\ _log(level, logged + 1)
    \/ _consume_logs
    \/ shutdown_set
    \/ shutdown_join

SpecShutdown == Init /\ [][NextShutdown]_vars

\* every message accepted before shutdown() was called is at the appender
DeliveredTo(appender) ==
    \A k \in 1..Len(accepted) :
       \E j \in 1..Len(delivered[appender]) :
          delivered[appender][j] = PlainTextFormatter_format(accepted[k])

(***************************************************************************)
(* C24.  Graceful shutdown flushes all pending logs: when shutdown() has   *)
(* returned, every message that was accepted into the log queue before     *)
(* shutdown() was called has been delivered to every registered appender,  *)
(* whether it was still in the queue or in the consumer's batch.           *)
(***************************************************************************)
C24_ShutdownFlushesAll ==
    shutdown_call = "returned"
    => \A k \in 1..Len(appenders) : DeliveredTo(appenders[k])

\* the handler and the parameter map of a result of match, None for no match
AnswerOf(result) ==
    IF result = None THEN None
    ELSE Some(<<Get(result).handler, Get(result).path_params>>)

(***************************************************************************)
(* C31.  Routes of different methods do not interfere: a successful        *)
(* add_route for method m1 changes neither the handler nor the parameter   *)
(* map that match returns for any other method m2 and any path.            *)
(***************************************************************************)
C31_MethodsDoNotInterfere ==
    [][ (outcome'.op = "add_route" /\ outcome'.result = None)
        => \A m2 \in PrecedenceMethods \ {Upper(outcome'.method)},
              path \in PrecedencePaths :
              AnswerOf(router_match(nodes', m2, path))
                 = AnswerOf(router_match(nodes, m2, path)) ]_vars

\* the nodes reached from a node by a chain of edges that consumes all the
\* segments: a static edge for an equal segment, the parameter edge for one
\* segment, the wildcard edge for all the segments that remain
RECURSIVE ReachedBy(_, _, _)
ReachedBy(N, node, segments) ==
    IF segments = <<>> THEN {node}
    ELSE (IF Head(segments) \in DOMAIN N[node].static_children
          THEN ReachedBy(N, N[node].static_children[Head(segments)],
                         Tail(segments))
          ELSE {})
         \cup (IF N[node].param_child # None
               THEN ReachedBy(N, Get(N[node].param_child), Tail(segments))
               ELSE {})
         \cup (IF N[node].wildcard_child # None
               THEN {Get(N[node].wildcard_child)}
               ELSE {})

(***************************************************************************)
(* C32.  Match is sound: when match(method, path) returns a RouteMatch,    *)
(* its handler is the one stored under exactly that method at a node that  *)
(* is reached from the root by a chain of edges consuming the whole parsed *)
(* path; never the handler of a node that matches only a prefix.           *)
(***************************************************************************)
C32_MatchSound ==
    (outcome.op = "match" /\ outcome.result # None)
    => \E node \in ReachedBy(nodes, Root, _parse_path(outcome.arg)) :
          /\ Upper(outcome.method) \in DOMAIN nodes[node].handlers
          /\ nodes[node].handlers[Upper(outcome.method)]
                = Get(outcome.result).handler

\* a match is answered for a path of two segments while a route for a prefix
\* of the path (the root route) holds a handler for the same method
C32_Witness ==
    /\ outcome.op = "match"
    /\ outcome.result # None
    /\ Len(_parse_path(outcome.arg)) = 2
    /\ \E k \in 0..1 :
          \E node \in ReachedBy(nodes, Root, SubSeq(_parse_path(outcome.arg), 1, k)) :
             Upper(outcome.method) \in DOMAIN nodes[node].handlers

\* no gate is inside issue_ticket
GatesIdle == \A gate \in Gates : gates[gate].pc = "idle"

\* the UNPAID tickets that reference the spot
UnpaidFor(spot) ==
    {i \in 1..Len(tickets) : tickets[i].spot = spot /\ tickets[i].status = "UNPAID"}

(***************************************************************************)
(* C33.  Exit is idempotent: make_and_verify_payment on a ticket that is   *)
(* already PAID (the only call that leaves tickets and gates as they are)  *)
(* changes no spot status; and whenever no gate is inside issue_ticket, a  *)
(* spot is OCCUPIED if and only if exactly one UNPAID ticket references it.*)
(***************************************************************************)
C33_ExitIdempotent ==
    /\ [][ (tickets' = tickets /\ gates' = gates) => spot_status' = spot_status ]_vars
    /\ [] ( GatesIdle
            => \A spot \in Spots :
                  spot_status[spot] = "OCCUPIED"
                  <=> Cardinality(UnpaidFor(spot)) = 1 )

(***************************************************************************)
(* Rate Limiter: allow_request statement by statement.  The whole body     *)
(* runs under the lock of the user.                                        *)
(***************************************************************************)
\* the record a returned call leaves in decisions: kind is "open" for a call
\* that opened or reset the window, "allow" for True inside the window and
\* "deny" for False; at is the datetime.now() the call read (line 17, 23 or
\* 34)
Decision(user, kind, at) == [user |-> user, kind |-> kind, at |-> at]

\* line 15, entered without waiting for the holder of the lock
allow_request_enter(t, user) ==
    /\ OutsideLimiter
    /\ requests[t].pc = "idle"
    /\ user_locks' = [user_locks EXCEPT ![user] = Some(t)]
    /\ requests' = [requests EXCEPT ![t] =
                      [pc |-> "test", user |-> user, count |-> 0, at |-> 0]]
    /\ UNCHANGED <<track_dict, now, decisions>>

\* line 15: with self.user_locks[user_id]
allow_request_acquire(t, user) ==
    /\ OutsideLimiter
    /\ requests[t].pc = "idle"
    /\ user_locks[user] = None
    /\ user_locks' = [user_locks EXCEPT ![user] = Some(t)]
    /\ requests' = [requests EXCEPT ![t] =
                      [pc |-> "test", user |-> user, count |-> 0, at |-> 0]]
    /\ UNCHANGED <<track_dict, now, decisions>>

\* lines 16-28: the tests, with the datetime.now() of line 23 kept for the
\* record of the call; "Limit exceeded" returns False at once
allow_request_test(t) ==
    /\ OutsideLimiter
    /\ requests[t].pc = "test"
    /\ LET user == requests[t].user
           entry == track_dict[user]
       IN  IF entry = None
           THEN /\ requests' = [requests EXCEPT ![t].pc = "first"]
                /\ UNCHANGED <<user_locks, decisions>>
           ELSE IF now - Get(entry).requested_time <= window_time
           THEN IF Get(entry).count >= max_requests
                THEN /\ requests' = [requests EXCEPT ![t] = RequestIdle]
                     /\ user_locks' = [user_locks EXCEPT ![user] = None]
                     /\ decisions' = Append(decisions, Decision(user, "deny", now))
                ELSE /\ requests' = [requests EXCEPT ![t].pc = "load", ![t].at = now]
                     /\ UNCHANGED <<user_locks, decisions>>
           ELSE /\ requests' = [requests EXCEPT ![t].pc = "reset"]
                /\ UNCHANGED <<user_locks, decisions>>
    /\ UNCHANGED <<track_dict, now>>

\* lines 17-20: the first request of the user opens the window
allow_request_first(t) ==
    /\ OutsideLimiter
    /\ requests[t].pc = "first"
    /\ LET user == requests[t].user
       IN  /\ track_dict' = [track_dict EXCEPT ![user] =
                               Some([requested_time |-> now, count |-> 0 + 1])]
           /\ user_locks' = [user_locks EXCEPT ![user] = None]
           /\ decisions' = Append(decisions, Decision(user, "open", now))
    /\ requests' = [requests EXCEPT ![t] = RequestIdle]
    /\ UNCHANGED now

\* line 30, the read of count
allow_request_load(t) ==
    /\ OutsideLimiter
    /\ requests[t].pc = "load"
    /\ requests' = [requests EXCEPT
                      ![t].pc = "store",
                      ![t].count = Get(track_dict[requests[t].user]).count]
    /\ UNCHANGED <<track_dict, user_locks, now, decisions>>

\* lines 30-32, the write of count + 1; True is returned
allow_request_store(t) ==
    /\ OutsideLimiter
    /\ requests[t].pc = "store"
    /\ LET user == requests[t].user
       IN  /\ track_dict' = [track_dict EXCEPT ![user] =
                 Some([Get(track_dict[user]) EXCEPT !.count = requests[t].count + 1])]
           /\ user_locks' = [user_locks EXCEPT ![user] = None]
           /\ decisions' = Append(decisions, Decision(user, "allow", requests[t].at))
    /\ requests' = [requests EXCEPT ![t] = RequestIdle]
    /\ UNCHANGED now

\* lines 34-37: the window has passed and is reset
allow_request_reset(t) ==
    /\ OutsideLimiter
    /\ requests[t].pc = "reset"
    /\ LET user == requests[t].user
       IN  /\ track_dict' = [track_dict EXCEPT ![user] =
                               Some([requested_time |-> now, count |-> 1])]
           /\ user_locks' = [user_locks EXCEPT ![user] = None]
           /\ decisions' = Append(decisions, Decision(user, "open", now))
    /\ requests' = [requests EXCEPT ![t] = RequestIdle]
    /\ UNCHANGED now

\* a second passes
clock_tick ==
    /\ OutsideLimiter
    /\ now' = now + 1
    /\ UNCHANGED <<track_dict, user_locks, requests, decisions>>

(***************************************************************************)
(* SpecRateLimiter: two threads call allow_request for two users while     *)
(* time passes.                                                            *)
(***************************************************************************)
MaxRequests == 4
MaxTime == 3

InCall == Cardinality({t \in Requesters : requests[t].pc # "idle"})

NextRateLimiter ==
    \/ /\ Len(decisions) + InCall < MaxRequests
       /\ \E t \in Requesters, user \in Users : allow_request_acquire(t, user)
    \/ \E t \in Requesters : allow_request_test(t)
    \/ \E t \in Requesters : allow_request_first(t)
    \/ \E t \in Requesters : allow_request_load(t)
    \/ \E t \in Requesters : allow_request_store(t)
    \/ \E t \in Requesters : allow_request_reset(t)
    \/ now < MaxTime /\ clock_tick

SpecRateLimiter == Init /\ [][NextRateLimiter]_vars

\* the calls for the user that returned True in the window opened by
\* decision i: the opening call and the "allow" calls up to the next opening
InWindow(i) ==
    {j \in i..Len(decisions) :
        /\ decisions[j].user = decisions[i].user
        /\ decisions[j].kind \in {"open", "allow"}
        /\ \A k \in (i + 1)..j :
              ~(decisions[k].user = decisions[i].user /\ decisions[k].kind = "open")}

(***************************************************************************)
(* C34.  Rate limiter v2 with max_requests >= 1: in the window that a      *)
(* request of a user opened or reset, at most max_requests calls for that  *)
(* user return True, each within window_time seconds of the opening, under *)
(* every interleaving; the stored count never exceeds max_requests; and a  *)
(* step of a call for one user changes nothing that is kept for another.   *)
(***************************************************************************)
C34_AtMostMaxPerWindow ==
    /\ [] ( /\ \A i \in 1..Len(decisions) :
                 decisions[i].kind = "open"
                 => /\ Cardinality(InWindow(i)) <= max_requests
                    /\ \A j \in InWindow(i) :
                          decisions[j].at - decisions[i].at <= window_time
            /\ \A user \in Users :
                 track_dict[user] # None
                 => Get(track_dict[user]).count <= max_requests )
    /\ [][ \A t \in Requesters :
              requests'[t] # requests[t]
              => \A other \in Users \ {requests[t].user, requests'[t].user} :
                    /\ track_dict'[other] = track_dict[other]
                    /\ user_locks'[other] = user_locks[other] ]_vars

\* a window of a user is full (max_requests calls returned True in it), a
\* further call in it was denied, and the other user was served meanwhile
C34_Witness ==
    \E i \in 1..Len(decisions) :
       /\ decisions[i].kind = "open"
       /\ Cardinality(InWindow(i)) = max_requests
       /\ \E j \in (i + 1)..Len(decisions) :
             decisions[j].user = decisions[i].user /\ decisions[j].kind = "deny"
       /\ \E j \in (i + 1)..Len(decisions) : decisions[j].user # decisions[i].user

(***************************************************************************)
(* Basic-Logger/logger.py: the same logger with a consumer loop of its     *)
(* own.  An empty get goes back to the loop test, and the time-based flush *)
(* compares last_flush_time - time.time() with batch_timeout.              *)
(***************************************************************************)
batch_timeout == 1
MaxClock == 3

\* parts of the logger's state that the consumer loop of logger.py leaves
\* alone
LoggerAtRest ==
    UNCHANGED <<logger_instance, logger_lock, initialized, init_runs, callers,
                shutdown_event, shutdown_call>>

\* PlainFormatter.format: the level name and the message text
PlainFormatter_format(message) ==
    <<"[", message.level, "]", message.message>>

\* Logger() in one thread, lines 19-48: the instance, its queue and its
\* consumer thread, whose first statements (108-109) read the clock
Logger_construct ==
    /\ OutsideTimedLogger
    /\ logger_instance = None
    /\ logger_instance' = Some("c1")
    /\ initialized' = Some(TRUE)
    /\ init_runs' = init_runs + 1
    /\ callers' = [callers EXCEPT !["c1"] = [pc |-> "done", self |-> Some("c1")]]
    /\ appenders' = <<>>
    /\ log_queue' = <<>>
    /\ shutdown_event' = FALSE
    /\ consumer' = "while"
    /\ batch' = <<>>
    /\ last_flush_time' = time_time
    /\ UNCHANGED <<logger_lock, delivered, shutdown_call, logged, accepted,
                   time_time>>

\* set_appender, called while the logger is set up (before the first log)
set_appender(appender) ==
    /\ OutsideTimedLogger
    /\ Constructed
    /\ logged = 0
    /\ \A k \in 1..Len(appenders) : appenders[k] # appender
    /\ appenders' = Append(appenders, appender)
    /\ LoggerAtRest
    /\ UNCHANGED <<log_queue, batch, delivered, consumer, logged, accepted,
                   timer_vars>>

\* _log of logger.py, lines 62-75: min_level is TRACE, so every level passes
\* _should_log; the message is put, or dropped when the queue is full
log_put(level, msg) ==
    /\ OutsideTimedLogger
    /\ Constructed
    /\ logged' = logged + 1
    /\ IF LogLevel[level] >= LogLevel["TRACE"] /\ Len(log_queue) < maxsize
       THEN /\ log_queue' = Append(log_queue, LogMessage(level, msg))
            /\ accepted' = Append(accepted, LogMessage(level, msg))
       ELSE UNCHANGED <<log_queue, accepted>>
    /\ LoggerAtRest
    /\ UNCHANGED <<appenders, batch, delivered, consumer, timer_vars>>

\* _flush: every message of the batch, formatted, to every appender
RECURSIVE _flush(_, _)
_flush(to, messages) ==
    IF messages = <<>> THEN to
    ELSE _flush([a \in DOMAIN to |->
                    IF \E k \in 1..Len(appenders) : appenders[k] = a
                    THEN Append(to[a], PlainFormatter_format(Head(messages)))
                    ELSE to[a]],
                Tail(messages))

\* line 110: while not self.shutdown_event.is_set()
timed_consume_while ==
    /\ OutsideTimedLogger
    /\ consumer = "while"
    /\ consumer' = IF shutdown_event THEN "final" ELSE "get"
    /\ LoggerAtRest
    /\ UNCHANGED <<appenders, log_queue, batch, delivered, logged, accepted,
                   timer_vars>>

\* lines 112-116: get(timeout=0.1); on Empty, continue
timed_consume_get ==
    /\ OutsideTimedLogger
    /\ consumer = "get"
    /\ IF log_queue # <<>>
       THEN /\ batch' = Append(batch, Head(log_queue))
            /\ log_queue' = Tail(log_queue)
            /\ consumer' = "check"
       ELSE /\ UNCHANGED <<batch, log_queue>>
            /\ consumer' = "while"
    /\ LoggerAtRest
    /\ UNCHANGED <<appenders, delivered, logged, accepted, timer_vars>>

\* lines 118-124: should_flush, with the time difference as line 119 has it
timed_consume_check ==
    /\ OutsideTimedLogger
    /\ consumer = "check"
    /\ LET should_flush ==
              \/ Len(batch) >= batch_size
              \/ (batch # <<>> /\ last_flush_time - time_time >= batch_timeout)
       IN  IF should_flush
           THEN /\ delivered' = _flush(delivered, batch)
                /\ batch' = <<>>
                /\ last_flush_time' = time_time
           ELSE UNCHANGED <<delivered, batch, last_flush_time>>
    /\ consumer' = "while"
    /\ LoggerAtRest
    /\ UNCHANGED <<appenders, log_queue, logged, accepted, time_time>>

\* the consumer thread of logger.py executes its next statement
timed_consume_logs ==
    \/ timed_consume_while
    \/ timed_consume_get
    \/ timed_consume_check

\* a second passes
time_passes ==
    /\ OutsideTimedLogger
    /\ time_time < MaxClock
    /\ time_time' = time_time + 1
    /\ UNCHANGED <<logger_vars, last_flush_time>>

(***************************************************************************)
(* SpecTimedFlush: logger.py is constructed, appenders are set, messages   *)
(* are logged while the consumer runs and time passes; shutdown() is never *)
(* called.  The consumer thread keeps running and the clock keeps going.   *)
(***************************************************************************)
NextTimedFlush ==
    \/ Logger_construct
    \/ \E appender \in Appenders : set_appender(appender)
    \/ \E level \in Levels_logged :
          logged < MaxMessages /\ log_put(level, logged + 1)
    \/ timed_consume_logs
    \/ time_passes

SpecTimedFlush ==
    /\ Init
    /\ [][NextTimedFlush]_vars
    /\ WF_vars(timed_consume_logs)
    /\ WF_vars(time_passes)

\* the k-th accepted message is at every appender
DeliveredEverywhere(k) ==
    \A a \in 1..Len(appenders) :
       \E j \in 1..Len(delivered[appenders[a]]) :
          delivered[appenders[a]][j] = PlainFormatter_format(accepted[k])

(***************************************************************************)
(* C35.  logger.py delivers every accepted message without shutdown: a     *)
(* message accepted into the queue is eventually formatted and passed to   *)
(* every appender, even when fewer than batch_size messages are logged,    *)
(* because the time-based flush fires once batch_timeout has elapsed.      *)
(***************************************************************************)
C35_EventuallyDelivered ==
    \A k \in 1..MaxMessages :
       (Len(accepted) >= k) ~> (Len(accepted) >= k /\ DeliveredEverywhere(k))

(***************************************************************************)
(* Logger/main.py: Logger.log statement by statement.  The message and the *)
(* level are stored in the logger before the lock is taken.                *)
(***************************************************************************)
\* lines 122-124: the level string is validated; an unknown one raises
log_validate(t, msg, log_level) ==
    /\ OutsideSimpleLogger
    /\ log_calls[t].pc = "idle"
    /\ log_calls' = [log_calls EXCEPT ![t] =
          IF level_lower(log_level) \in {"info", "debug", "warning", "fatal", "trace"}
          THEN [pc |-> "msg", msg |-> msg, log_level |-> log_level]
          ELSE LogIdle]
    /\ UNCHANGED <<self_msg, self_log_level, self_lock, emitted>>

\* line 125: self.msg = msg
log_set_msg(t) ==
    /\ OutsideSimpleLogger
    /\ log_calls[t].pc = "msg"
    /\ self_msg' = Some(log_calls[t].msg)
    /\ log_calls' = [log_calls EXCEPT ![t].pc = "log_level"]
    /\ UNCHANGED <<self_log_level, self_lock, emitted>>

\* line 126: self.log_level = LogLevels[log_level.upper()]
log_set_level(t) ==
    /\ OutsideSimpleLogger
    /\ log_calls[t].pc = "log_level"
    /\ self_log_level' = Some(level_upper(log_calls[t].log_level))
    /\ log_calls' = [log_calls EXCEPT ![t].pc = "acquire"]
    /\ UNCHANGED <<self_msg, self_lock, emitted>>

\* line 127: with self.lock
log_acquire(t) ==
    /\ OutsideSimpleLogger
    /\ log_calls[t].pc = "acquire"
    /\ self_lock = None
    /\ self_lock' = Some(t)
    /\ log_calls' = [log_calls EXCEPT ![t].pc = "append"]
    /\ UNCHANGED <<self_msg, self_log_level, emitted>>

\* line 128: self.aobj.log(self.msg, self.log_level); the lock is released
log_append(t) ==
    /\ OutsideSimpleLogger
    /\ log_calls[t].pc = "append"
    /\ emitted' = Append(emitted,
          [ call_msg |-> log_calls[t].msg,
            call_log_level |-> log_calls[t].log_level,
            msg |-> Get(self_msg),
            log_level |-> Get(self_log_level) ])
    /\ self_lock' = None
    /\ log_calls' = [log_calls EXCEPT ![t] = LogIdle]
    /\ UNCHANGED <<self_msg, self_log_level>>

(***************************************************************************)
(* SpecSimpleLogger: two threads call Logger.log on one logger.            *)
(***************************************************************************)
MaxLogCalls == 3

Logging == Cardinality({t \in LogThreads : log_calls[t].pc # "idle"})

NextSimpleLogger ==
    \/ /\ Len(emitted) + Logging < MaxLogCalls
       /\ \E t \in LogThreads, msg \in Messages, log_level \in LevelStrings :
             log_validate(t, msg, log_level)
    \/ \E t \in LogThreads : log_set_msg(t)
    \/ \E t \in LogThreads : log_set_level(t)
    \/ \E t \in LogThreads : log_acquire(t)
    \/ \E t \in LogThreads : log_append(t)

SpecSimpleLogger == Init /\ [][NextSimpleLogger]_vars

(***************************************************************************)
(* C36.  Under every interleaving of concurrent Logger.log calls on one    *)
(* logger, each invocation of the appender carries exactly the message and *)
(* the level of the call that made it; no call emits another call's        *)
(* message or level.                                                       *)
(***************************************************************************)
C36_OwnMessageAndLevel ==
    \A i \in 1..Len(emitted) :
       /\ emitted[i].msg = emitted[i].call_msg
       /\ emitted[i].log_level \in DOMAIN LogLevels
       /\ emitted[i].log_level = level_upper(emitted[i].call_log_level)

(***************************************************************************)
(* The list-based Router (src/API-Gateway/components/gateway/router.py).   *)
(* A call returns a value or raises; Returns and Raises tell them apart.   *)
(***************************************************************************)
Returns(value) == [kind |-> "return", value |-> value]
Raises(error) == [kind |-> "raise", error |-> error]

\* c in s, for a character c
Contains(s, c) == \E i \in 1..Len(s) : s[i] = c

\* s.replace(c, '') for a character c, and s.replace('{*', '')
RECURSIVE Remove(_, _)
Remove(s, c) ==
    IF s = <<>> THEN <<>>
    ELSE IF Head(s) = c THEN Remove(Tail(s), c)
    ELSE <<Head(s)>> \o Remove(Tail(s), c)

RECURSIVE RemoveBraceStar(_)
RemoveBraceStar(s) ==
    IF s = <<>> THEN <<>>
    ELSE IF Len(s) >= 2 /\ s[1] = "{" /\ s[2] = "*"
    THEN RemoveBraceStar(SubSeq(s, 3, Len(s)))
    ELSE <<Head(s)>> \o RemoveBraceStar(Tail(s))

_has_params(path) == Contains(path, "{") /\ Contains(path, "}")

_has_wildcards(path) == Contains(path, "*")

\* the loop of _get_match_params over zip(s1, s2), from position i
RECURSIVE match_params_from(_, _, _, _)
match_params_from(s1, s2, i, params) ==
    IF i > Len(s1) THEN Some(params)
    ELSE IF _has_params(s2[i])
    THEN match_params_from(s1, s2, i + 1,
                           DictSet(params, Remove(Remove(s2[i], "{"), "}"), s1[i]))
    ELSE IF s1[i] # s2[i] THEN None
    ELSE match_params_from(s1, s2, i + 1, params)

\* Router._get_match_params: Some(params) or None
_get_match_params(path, pattern) ==
    LET s1 == Split(Strip(path))
        s2 == Split(Strip(pattern))
    IN  IF Len(s1) # Len(s2) THEN None
        ELSE match_params_from(s1, s2, 1, EmptyDict)

\* the loop of _get_wildcard_params over enumerate(s2); i counts from 0 as
\* in the code, so s1[i] of the code is s1[i + 1] here and is an IndexError
\* when i >= len(s1)
RECURSIVE wildcard_params_from(_, _, _)
wildcard_params_from(s1, s2, i) ==
    IF i >= Len(s2) THEN Raises("UnboundLocalError")
    ELSE LET seg == s2[i + 1]
         IN  IF _has_wildcards(seg)
             THEN Returns(Some(Dict1(Remove(RemoveBraceStar(seg), "}"),
                                     Join(SubSeq(s1, i + 1, Len(s1))))))
             ELSE IF i > Len(s1) THEN Returns(None)
             ELSE IF i >= Len(s1) THEN Raises("IndexError")
             ELSE IF seg # s1[i + 1] THEN Returns(None)
             ELSE wildcard_params_from(s1, s2, i + 1)

\* Router._get_wildcard_params
_get_wildcard_params(path, pattern) ==
    wildcard_params_from(Split(Strip(path)), Split(Strip(pattern)), 0)

\* the loop over self.param_routes[method], lines 96-101; a params dict that
\* is empty counts as no match
RECURSIVE resolve_param_routes(_, _)
resolve_param_routes(path, list) ==
    IF list = <<>> THEN None
    ELSE LET params == _get_match_params(path, Head(list).pattern)
         IN  IF params # None /\ Get(params) # EmptyDict
             THEN Some([handler |-> Head(list).handler, params |-> params])
             ELSE resolve_param_routes(path, Tail(list))

\* the loop over self.wildcard_routes[method], lines 103-108
RECURSIVE resolve_wildcard_routes(_, _)
resolve_wildcard_routes(path, list) ==
    IF list = <<>> THEN Returns("404 - Not Found")
    ELSE LET params == _get_wildcard_params(path, Head(list).pattern)
         IN  IF params.kind = "raise" THEN params
             ELSE IF params.value # None
             THEN Returns([handler |-> Head(list).handler,
                           params |-> params.value])
             ELSE resolve_wildcard_routes(path, Tail(list))

\* Router.resolve_route
resolve_route(path, method) ==
    IF method \notin DOMAIN routes THEN Returns("not allowed")
    ELSE IF path \in DOMAIN routes[method]
    THEN Returns([handler |-> routes[method][path], params |-> None])
    ELSE LET by_params == resolve_param_routes(path, param_routes[method])
         IN  IF by_params # None THEN Returns(Get(by_params))
             ELSE resolve_wildcard_routes(path, wildcard_routes[method])

\* Router.add_route
Router_add_route(path, method, handler) ==
    /\ OutsideRouter
    /\ IF method \notin DOMAIN routes
       THEN /\ resolved' = Returns("not allowed")
            /\ UNCHANGED <<routes, param_routes, wildcard_routes>>
       ELSE /\ resolved' = Returns(None)
            /\ IF _has_wildcards(path)
               THEN /\ wildcard_routes' = [wildcard_routes EXCEPT ![method] =
                          Append(@, [pattern |-> path, handler |-> handler])]
                    /\ UNCHANGED <<routes, param_routes>>
               ELSE IF _has_params(path)
               THEN /\ param_routes' = [param_routes EXCEPT ![method] =
                          Append(@, [pattern |-> path, handler |-> handler])]
                    /\ UNCHANGED <<routes, wildcard_routes>>
               ELSE /\ routes' = [routes EXCEPT ![method] = DictSet(@, path, handler)]
                    /\ UNCHANGED <<param_routes, wildcard_routes>>

\* a call of Router.resolve_route, with what it returned or raised
Router_resolve_route(path, method) ==
    /\ OutsideRouter
    /\ resolved' = [resolve_route(path, method) EXCEPT !.kind =
                       IF @ = "return" THEN "resolved" ELSE @]
    /\ UNCHANGED <<routes, param_routes, wildcard_routes>>

(***************************************************************************)
(* SpecListRouter: static, parameter and wildcard routes under /a, and     *)
(* requests that are shorter and longer than the registered patterns.      *)
(***************************************************************************)
MaxListRoutes == 2
ListMethods == {"GET", "POST", "PUT"}
ListPatterns == {S_a_b, S_a_id, S_a_b_rest}
ListPaths == {S_a, S_a_b, S_a_x, S_a_b_c, S_slash}

RoutesAdded ==
    Cardinality(DOMAIN routes["GET"]) + Cardinality(DOMAIN routes["POST"])
    + Len(param_routes["GET"]) + Len(param_routes["POST"])
    + Len(wildcard_routes["GET"]) + Len(wildcard_routes["POST"])

NextListRouter ==
    \/ /\ RoutesAdded < MaxListRoutes
       /\ \E path \in ListPatterns, method \in ListMethods, handler \in Handlers :
             Router_add_route(path, method, handler)
    \/ \E path \in ListPaths, method \in ListMethods :
          Router_resolve_route(path, method)

SpecListRouter == Init /\ [][NextListRouter]_vars

(***************************************************************************)
(* C37.  Router.resolve_route is total: for every registered route set,    *)
(* every path and every method it returns a match dict, the 'not allowed'  *)
(* message or '404 - Not Found' and never raises, also when the path is    *)
(* shorter than the static prefix of a registered wildcard pattern.        *)
(***************************************************************************)
C37_ResolveTotal ==
    \A path \in ListPaths, method \in ListMethods :
       resolve_route(path, method).kind = "return"

====
